---- MODULE Spec2Model ----
(***************************************************************************)
(* Retry / backoff loops of the Notion MCP server's reference client code. *)
(*                                                                         *)
(* One logical call is modelled: Init picks which of the repository's      *)
(* retry loops runs it (impl) and its maxRetries argument; the upstream    *)
(* answers every request with an arbitrary response.                       *)
(*                                                                         *)
(*   notionRequest        src/unnamed/part_002:36-69                       *)
(*   NotionClientSimple   src/unnamed/part_002:290-340   (request)         *)
(*   executeWithRetry     src/docs/rate-limiting.md:312-367                *)
(*   retryWithBackoff     src/unnamed/part_002:112-142                     *)
(*   withRetry            src/unnamed/part_001:347-372                     *)
(*                                                                         *)
(* A second specification, WalkSpec, models one pagination walk: WalkInit   *)
(* picks which of the repository's pagination loops runs it (walker), the  *)
(* upstream answers every page request with an arbitrary page or a failure.*)
(*                                                                         *)
(*   paginateQuery        src/docs/pain-points.md:134-162                  *)
(*   getAllDatabaseRows   src/unnamed/part_001:205-233                     *)
(*   getFullProperty      src/unnamed/part_001:173-195                     *)
(*   getFullProperty.doc  src/docs/pain-points.md:198-217                  *)
(*                                                                         *)
(* Not modelled: the timestamp arithmetic of throttle() (only its position *)
(* in the loop of executeWithRetry is kept).                               *)
(***************************************************************************)
EXTENDS Integers, Sequences, FiniteSets, TLC

(* ------------------------------ bounds -------------------------------- *)

\* largest maxRetries argument explored
MaxRetriesBound == 4

\* longest Retry-After header value explored (characters)
MaxHeaderLen == 2

\* Math.random() is drawn from the grid {0, 1/RandomSteps, ..., (RandomSteps-1)/RandomSteps}
RandomSteps == 4

\* largest page-count ceiling explored: the source fixes maxPages / maxAttempts at 100, the
\* walk is modelled for every ceiling from 1 to this bound
MaxPagesBound == 3

\* callers that share one rate limiter
NumCallers == 3

\* largest interval (1000 / requestsPerSecond) explored, in clock ticks
MaxIntervalBound == 2

\* most fetches explored in one call of a client method
MaxSends == 2

\* walks that share one client with a queue
NumWalks == 2

\* largest maxRetries of the client with a queue, and most pages the server has for a walk
MaxQueueRetries == 2

MaxWalkPages == 2

\* the transports the HTTP server creates in one run
MaxSessions == 2

(* --------------------------- value domains ---------------------------- *)

Impls == {"notionRequest", "NotionClientSimple", "executeWithRetry", "retryWithBackoff", "withRetry"}

\* characters a Retry-After header value is built from: two digits, a sign, a non-digit
HeaderChars == {"0", "3", "-", "x"}

RECURSIVE StringsUpTo(_)
StringsUpTo(n) == IF n = 0 THEN {<<>>} ELSE LET shorter == StringsUpTo(n - 1) IN shorter \cup {Append(s, c) : s \in shorter, c \in HeaderChars}

\* headers.get(name): <<>> is null (header absent), <<s>> is the string s (possibly empty)
NoHeader == <<>>

HeaderValues == {NoHeader} \cup {<<s>> : s \in StringsUpTo(MaxHeaderLen)}

\* statuses of responses that are neither 2xx nor 429 (304: neither 4xx nor 5xx)
ErrorStatuses == {304, 404, 500}

Payloads == {"p1", "p2"}

\* statuses of the responses explored with a body that is not JSON
UnparseableStatuses == {200, 429, 500}

(* ------------------------- JavaScript numbers ------------------------- *)

\* a JS number is either NaN or an integer (all delays of the model are whole milliseconds)
NaN == [nan |-> TRUE, n |-> 0]

Num(n) == [nan |-> FALSE, n |-> n]

Times(a, b) == IF a.nan \/ b.nan THEN NaN ELSE Num(a.n * b.n)

Plus(a, b) == IF a.nan \/ b.nan THEN NaN ELSE Num(a.n + b.n)

Math_pow(b, e) == Num(b ^ e)

IsDigit(c) == c \in {"0", "1", "2", "3", "4", "5", "6", "7", "8", "9"}

DigitValue(c) == CASE c = "0" -> 0 [] c = "1" -> 1 [] c = "2" -> 2 [] c = "3" -> 3 [] c = "4" -> 4 [] c = "5" -> 5 [] c = "6" -> 6 [] c = "7" -> 7 [] c = "8" -> 8 [] c = "9" -> 9

\* the value of the longest digit prefix of s, read in base 10 after the digits acc already read
RECURSIVE DigitPrefix(_, _, _)
DigitPrefix(s, acc, seen) == IF s # <<>> /\ IsDigit(Head(s)) THEN DigitPrefix(Tail(s), acc * 10 + DigitValue(Head(s)), TRUE) ELSE [seen |-> seen, value |-> acc]

\* parseInt(string): optional sign, then the longest run of digits; NaN when there is no digit
parseInt(s) == LET neg == s # <<>> /\ Head(s) = "-" IN LET body == IF neg THEN Tail(s) ELSE s IN LET d == DigitPrefix(body, 0, FALSE) IN IF ~d.seen THEN NaN ELSE Num(IF neg THEN 0 - d.value ELSE d.value)

\* truthiness of `retryAfter`: null and the empty string are falsy
Truthy(h) == h # NoHeader /\ h[1] # <<>>


(* ------------------------- delay computations ------------------------- *)

\* notionRequest: const waitSeconds = retryAfter ? parseInt(retryAfter) : Math.pow(2, attempt)
notionRequest_waitSeconds(retryAfter, att) == IF Truthy(retryAfter) THEN parseInt(retryAfter[1]) ELSE Math_pow(2, att)

\* NotionClientSimple.request: retryAfter ? parseInt(retryAfter) : Math.pow(2, attempt + 1)
NotionClientSimple_waitSeconds(retryAfter, att) == IF Truthy(retryAfter) THEN parseInt(retryAfter[1]) ELSE Math_pow(2, att + 1)

\* variant: the header value is used as milliseconds
RetryAfterMs_Unscaled(retryAfter) == parseInt(retryAfter[1])

\* parseInt(retryAfter) * 1000
RetryAfterMs(retryAfter) == Times(parseInt(retryAfter[1]), Num(1000))

\* variant: the exponent starts at 0
ExponentialMs_FromZero(att) == Times(Math_pow(2, att), Num(1000))

\* Math.pow(2, attempt + 1) * 1000
ExponentialMs(att) == Times(Math_pow(2, att + 1), Num(1000))

\* executeWithRetry: const delay = retryAfter ? parseInt(retryAfter) * 1000 : Math.pow(2, attempt + 1) * 1000
executeWithRetry_delay(retryAfter, att) == IF Truthy(retryAfter) THEN RetryAfterMs(retryAfter) ELSE ExponentialMs(att)

\* retryWithBackoff: const baseDelay = retryAfter ? parseInt(retryAfter) * 1000 : Math.pow(2, attempt + 1) * 1000
retryWithBackoff_baseDelay(retryAfter, att) == IF Truthy(retryAfter) THEN RetryAfterMs(retryAfter) ELSE ExponentialMs(att)

\* withRetry: const baseDelay = Math.pow(2, attempt + 1) * 1000 (the header is never read)
withRetry_baseDelay(att) == ExponentialMs(att)

\* the loops that issue the HTTP request themselves and classify the response
RequestLoops == {"NotionClientSimple", "executeWithRetry"}

\* jitter = delay * (1/den) * (Math.random() * 2 - 1), with Math.random() = k / RandomSteps
Jitter(delay, den, k) == IF delay.nan THEN NaN ELSE Num((delay.n * (2 * k - RandomSteps)) \div (den * RandomSteps))

\* the base delay computed on a 429 response
BaseDelay429(f, retryAfter, att) == CASE f = "notionRequest" -> Times(notionRequest_waitSeconds(retryAfter, att), Num(1000)) [] f = "NotionClientSimple" -> Times(NotionClientSimple_waitSeconds(retryAfter, att), Num(1000)) [] f = "executeWithRetry" -> executeWithRetry_delay(retryAfter, att) [] f = "retryWithBackoff" -> retryWithBackoff_baseDelay(retryAfter, att) [] f = "withRetry" -> withRetry_baseDelay(att)

\* the jitter fraction is 1 / JitterDen: 0.1 in retryWithBackoff, 0.25 in executeWithRetry and withRetry
JitterDen(f) == IF f = "retryWithBackoff" THEN 10 ELSE 4

\* the loops that add jitter to the delay of a 429
JitterLoops == {"executeWithRetry", "retryWithBackoff", "withRetry"}

\* the delay handed to setTimeout on a 429 response: delay + jitter where the loop has jitter
FinalDelay429(f, delay, k) == IF f \in JitterLoops THEN Plus(delay, Jitter(delay, JitterDen(f), k)) ELSE delay

(* ------------------------------ guards -------------------------------- *)

\* variant: the loop admits one iteration too many
WhileCond_Inclusive(att, max) == att <= max

\* while (attempt < maxRetries)
WhileCond(att, max) == att < max

\* variant: the retry guard gives up one attempt early
RetriesLeft_OneShort(att, max) == att < max - 2

\* attempt < maxRetries - 1 (its negation is attempt >= maxRetries - 1)
RetriesLeft(att, max) == att < max - 1

\* response.ok
ResponseOk(status) == status >= 200 /\ status <= 299

(* ------------------------------- errors ------------------------------- *)

\* a JS Error: its message, the number interpolated into the message, its status property
\* (0 is undefined) and its cause (no loop ever sets one)
MkError(message, arg, status) == [message |-> message, arg |-> arg, status |-> status, cause |-> "none"]

NoError == MkError("", 0, 0)

\* throw new Error('Max retries exceeded')
MaxRetriesExceeded == MkError("Max retries exceeded", 0, 0)

\* the rejection of fetch() / of fn() when the network call does not complete
FetchFailed == MkError("fetch failed", 0, 0)

\* the SyntaxError of response.json() on a body that is not JSON
JsonError == MkError("Unexpected token", 0, 0)

\* variant: the status is never copied onto the error, and the message is the response's
ApiError_NoStatus(f, status) == MkError("data.message", 0, 0)

\* the error a loop throws (or its fn throws) for a response that is not ok
ApiError(f, status) == CASE f = "notionRequest" -> MkError("HTTP", status, 0) [] f = "executeWithRetry" -> MkError("Notion API error", 0, 0) [] OTHER -> MkError("data.message", 0, status)

(* ------------------------- pagination walkers ------------------------ *)

Walkers == {"paginateQuery", "getAllDatabaseRows", "getFullProperty", "getFullProperty.doc"}

\* the walkers that count their pages against a ceiling
CeilingWalkers == {"paginateQuery", "getAllDatabaseRows"}

\* a cursor is undefined / null (NoCursor) or a string <<s>>
NoCursor == <<>>

\* next_cursor values a page can carry: none, the empty string, the string "null", real cursors
Cursors == {NoCursor, <<"">>, <<"null">>, <<"c1">>, <<"c2">>}

\* response.results of a page when it is a list
ResultArrays == {<<>>, <<"a", "b">>, <<"c">>}

\* response.results: a list <<list>>, or missing (a single property item has no results)
NoResults == <<>>

ResultsValues == {NoResults} \cup {<<r>> : r \in ResultArrays}

\* one page of a paginated response
Page(results, has_more, next_cursor) == [results |-> results, has_more |-> has_more, next_cursor |-> next_cursor]

\* JavaScript truthiness of a cursor
CursorTruthy(c) == c # NoCursor /\ c[1] # ""

\* variant: items of a page already accumulated are dropped
Concat_Dedup(w, all, response) == all \o (IF response.results = NoResults THEN <<>> ELSE SelectSeq(response.results[1], LAMBDA x : \A i \in 1..Len(all) : all[i] # x))

\* allResults.concat(response.results); getFullProperty: allItems.concat(response.results || [response])
Concat(w, all, response) == all \o (IF response.results # NoResults THEN response.results[1] ELSE IF w = "getFullProperty" THEN <<"response">> ELSE <<"undefined">>)

\* is the cursor of the page usable: a non-empty string other than "null"
ValidCursor(c) == CursorTruthy(c) /\ c # <<"null">>

\* variant: has_more is ignored, the walk goes on as long as the page carries a cursor
Breaks_CursorOnly(w, response) == ~CursorTruthy(response.next_cursor)

\* does the loop body leave the loop with break after this page?
Breaks(w, response) == CASE w = "paginateQuery" -> ~response.has_more \/ ~CursorTruthy(response.next_cursor) \/ response.next_cursor = <<"null">> [] w = "getAllDatabaseRows" -> ~(response.has_more /\ CursorTruthy(response.next_cursor) /\ response.next_cursor # <<"null">>) [] w = "getFullProperty" -> ~response.has_more [] w = "getFullProperty.doc" -> ~response.has_more

\* variant: the ceiling admits one page too many
LoopCond_Inclusive(w, c, count, max) == CASE w = "paginateQuery" -> count <= max [] w = "getAllDatabaseRows" -> CursorTruthy(c) /\ count <= max [] w = "getFullProperty" -> CursorTruthy(c) [] w = "getFullProperty.doc" -> TRUE

\* the loop condition, evaluated after a body that did not break
LoopCond(w, c, count, max) == CASE w = "paginateQuery" -> count < max [] w = "getAllDatabaseRows" -> CursorTruthy(c) /\ count < max [] w = "getFullProperty" -> CursorTruthy(c) [] w = "getFullProperty.doc" -> TRUE

\* variant: the next page is requested without waiting for the outstanding one
AfterSend_NoAwait(w) == "send"

\* const response = await ...: the walker waits for the outcome of the request it sent
AfterSend(w) == "await"

(* ------------------------------- state -------------------------------- *)

VARIABLES impl, maxRetries, attempt, pc, requests, outcomes, last, baseDelay, finalDelay, result, err, raised

\* the state of one retried call; raised is the error thrown inside the try block (or by fn) in
\* the latest attempt
retryVars == <<impl, maxRetries, attempt, pc, requests, outcomes, last, baseDelay, finalDelay, result, err, raised>>

VARIABLES walker, maxPages, cursor, allResults, pageCount, wpc, walkRequests, outstanding, pagesFetched, lastSent, lastPage, served, listPages, walkResult

\* the state of one pagination walk. Locals of the walker: cursor, allResults (allRows,
\* allItems), pageCount (attempts); wpc is its position, walkResult what the call gave its caller.
\* Observers: walkRequests (page requests sent), outstanding (sent and not yet answered),
\* pagesFetched (pages received), lastSent (start_cursor of the latest request), lastPage
\* (has_more and next_cursor of the latest page), served (the results of the pages in arrival
\* order), listPages (every page so far carried a results list)
walkVars == <<walker, maxPages, cursor, allResults, pageCount, wpc, walkRequests, outstanding, pagesFetched, lastSent, lastPage, served, listPages, walkResult>>

\* what a call has given its caller: nothing yet, the returned array, or a thrown error
WalkResult(kind, items) == [kind |-> kind, items |-> items]

\* result.truncated as a caller reads it: every walker returns the bare array (return allRows),
\* which has no such property, and undefined is falsy
Truncated(r) == FALSE

NoPage == [has_more |-> FALSE, next_cursor |-> NoCursor]

\* no walk is running (the specification of the retry loops)
WalkIdle == /\ walker = "none" /\ maxPages = 0 /\ cursor = NoCursor /\ allResults = <<>> /\ pageCount = 0 /\ wpc = "idle" /\ walkRequests = 0 /\ outstanding = 0 /\ pagesFetched = 0 /\ lastSent = NoCursor /\ lastPage = NoPage /\ served = <<>> /\ listPages = TRUE /\ walkResult = WalkResult("pending", <<>>)

VARIABLES cancelled, requestsAtCancel

\* the encompassing operation of the retried call has been cancelled (its session closed), and
\* the number of requests the call had sent by then
cancelVars == <<cancelled, requestsAtCancel>>

\* no operation has been cancelled
CancelIdle == cancelled = FALSE /\ requestsAtCancel = 0

VARIABLES interval, lastRequest, now, tpc, wakeAt, started

\* one rate limiter (this.interval, this.lastRequest), the clock Date.now() reads, and per
\* caller of throttle(): its position, the time its timer is set for, and the time at which
\* its throttle() returned and its request started (-1: not yet)
throttleVars == <<interval, lastRequest, now, tpc, wakeAt, started>>

\* no rate limiter exists
ThrottleIdle == /\ interval = 0 /\ lastRequest = 0 /\ now = 0 /\ tpc = <<>> /\ wakeAt = <<>> /\ started = <<>>

VARIABLES method, args, optionsHeaders, rpc, sent

\* one call of a client method: the method, its arguments (undefined where the caller passed
\* none), the headers of the options of a direct request() call, the position of the call,
\* and the arguments of every fetch the call has made so far
reqVars == <<method, args, optionsHeaders, rpc, sent>>

\* no client method has been called
ReqIdle == /\ method = "none" /\ args = <<>> /\ optionsHeaders = <<>> /\ rpc = "idle" /\ sent = <<>>

VARIABLES tool, arguments, markdownEnv, hpc, called, caught, resolved, toolResult

\* one CallTool request: the tool name and the arguments object of the request, the value of
\* NOTION_MARKDOWN_CONVERSION the process started with, the position of the handler, the calls
\* of notionClient it has made, the error its catch block caught, the value the client call
\* resolved with, and the result it returned
toolVars == <<tool, arguments, markdownEnv, hpc, called, caught, resolved, toolResult>>

\* no CallTool request has been received
ToolIdle == /\ tool = "none" /\ arguments = <<>> /\ markdownEnv = <<>> /\ hpc = "idle" /\ called = <<>> /\ caught = <<>> /\ resolved = <<>> /\ toolResult = [content |-> <<>>]

VARIABLES calls, queue, processing, running, maxRetriesOfClient, pushed, shifted

\* one NotionClientWithRateLimiting shared by concurrent walks. this.queue holds the walks
\* whose request waits for the drain, this.processing is the flag of processQueue, running is
\* the walk whose fn the drain awaits (0: none), maxRetriesOfClient the maxRetries of request();
\* calls holds, for each walk, its position, the pages the server has for it, its locals
\* (fetched pages, allRows as items, its outcome) and the locals of its current call of
\* executeWithRetry (attempt, the outcomes of its attempts, its backoff waits, what fn gave).
\* Observers: pushed and shifted count the entries pushed on and shifted off this.queue, and
\* the ticket of a walk is the number of its entry among the pushed ones
queueVars == <<calls, queue, processing, running, maxRetriesOfClient, pushed, shifted>>

\* no client with a queue exists
QueueIdle == /\ calls = <<>> /\ queue = <<>> /\ processing = FALSE /\ running = 0 /\ maxRetriesOfClient = 0 /\ pushed = 0 /\ shifted = 0

VARIABLES transports, sessions, req, res, phase, pending, closing, atSigint

\* the HTTP server. transports is the map of http-server.js, from a session id to the number
\* of the transport stored under it; sessions lists the transports created so far, each with
\* its class, its sessionId, whether it is open and how often close() was called on it;
\* phase is serving, closing (the SIGINT handler runs) or exited; pending are the keys the
\* for-in of the SIGINT handler has still to visit and closing the key whose close() it
\* awaits. Observers: req and res are the last request of /mcp or /messages, with the class
\* of the transport the map held under its session id and whether the session of that id
\* had closed, and what became of the request; atSigint is the map SIGINT found
sessVars == <<transports, sessions, req, res, phase, pending, closing, atSigint>>

\* no HTTP server runs
SessIdle == /\ transports = <<>> /\ sessions = <<>> /\ req = <<>> /\ res = <<>> /\ phase = "idle" /\ pending = <<>> /\ closing = <<>> /\ atSigint = <<>>

\* the variables a pagination walk never touches
restOfWalk == <<retryVars, cancelVars, throttleVars, reqVars, toolVars, queueVars, sessVars>>

\* the variables the retry loops never touch
restOfRetry == <<walkVars, cancelVars, throttleVars, reqVars, toolVars, queueVars, sessVars>>

\* the variables a rate limiter never touches
restOfThrottle == <<retryVars, walkVars, cancelVars, reqVars, toolVars, queueVars, sessVars>>

\* the variables a call of a client method never touches
restOfRequest == <<retryVars, walkVars, cancelVars, throttleVars, toolVars, queueVars, sessVars>>

\* the variables a CallTool request never touches
restOfTool == <<retryVars, walkVars, cancelVars, throttleVars, reqVars, queueVars, sessVars>>

\* the variables the client with a queue never touches
restOfQueue == <<retryVars, walkVars, cancelVars, throttleVars, reqVars, toolVars, sessVars>>

\* the variables the HTTP server never touches
restOfSess == <<retryVars, walkVars, cancelVars, throttleVars, reqVars, toolVars, queueVars>>

\* where the loop body starts: executeWithRetry awaits this.throttle() before each fetch
BodyStart(f) == IF f = "executeWithRetry" THEN "throttle" ELSE "fetch"

\* a response: its status, its Retry-After header, whether its body is JSON, and the parsed body
Response(status, retryAfter, json, payload) == [status |-> status, retryAfter |-> retryAfter, json |-> json, payload |-> payload]

NoResponse == Response(0, NoHeader, TRUE, "none")

Init == /\ impl \in Impls /\ maxRetries \in 0..MaxRetriesBound /\ attempt = 0 /\ requests = 0 /\ outcomes = <<>> /\ last = NoResponse /\ baseDelay = Num(0) /\ finalDelay = Num(0) /\ result = "none" /\ pc = (IF WhileCond(0, maxRetries) THEN BodyStart(impl) ELSE "thrown") /\ err = (IF WhileCond(0, maxRetries) THEN NoError ELSE MaxRetriesExceeded) /\ raised = NoError /\ WalkIdle /\ CancelIdle /\ ThrottleIdle /\ ReqIdle /\ ToolIdle /\ QueueIdle /\ SessIdle

(* --------------------------- control steps ---------------------------- *)

\* attempt = att, then the loop condition is evaluated: next iteration, or fall out of the loop
\* to the trailing throw
Continue(att) == /\ attempt' = att /\ pc' = (IF WhileCond(att, maxRetries) THEN BodyStart(impl) ELSE "thrown") /\ err' = (IF WhileCond(att, maxRetries) THEN err ELSE MaxRetriesExceeded) /\ UNCHANGED result

\* variant: the error thrown out of the function is always the exhaustion error
Throw_Wrapped(e) == /\ pc' = "thrown" /\ err' = MaxRetriesExceeded /\ UNCHANGED <<attempt, baseDelay, finalDelay, result>>

\* throw e out of the function
Throw(e) == /\ pc' = "thrown" /\ err' = e /\ UNCHANGED <<attempt, baseDelay, finalDelay, result>>

\* await new Promise(resolve => setTimeout(resolve, final))
Sleep(base, final) == /\ pc' = "sleep" /\ baseDelay' = base /\ finalDelay' = final /\ UNCHANGED <<attempt, err, result>>

\* one request goes out and its outcome is recorded
Sent(kind, response) == /\ pc = "fetch" /\ requests' = requests + 1 /\ outcomes' = Append(outcomes, kind) /\ last' = response /\ UNCHANGED <<impl, maxRetries>> /\ UNCHANGED restOfRetry

\* the catch block around the attempt, entered with the thrown error e
Catch(e) == /\ raised' = e /\ CASE impl = "notionRequest" -> IF attempt >= maxRetries - 1 THEN Throw(e) ELSE Continue(attempt + 1) /\ UNCHANGED <<baseDelay, finalDelay>> [] impl = "NotionClientSimple" -> IF RetriesLeft(attempt, maxRetries) /\ e.status = 0 THEN Sleep(ExponentialMs(attempt), ExponentialMs(attempt)) ELSE Throw(e) [] impl = "executeWithRetry" -> IF RetriesLeft(attempt, maxRetries) /\ e.message # "Notion API error" THEN Sleep(ExponentialMs(attempt), ExponentialMs(attempt)) ELSE Throw(e) [] OTHER -> Throw(e)

(* ------------------------------ actions ------------------------------- *)

\* executeWithRetry: await this.throttle()
Throttle == /\ pc = "throttle" /\ pc' = "fetch" /\ UNCHANGED <<impl, maxRetries, attempt, requests, outcomes, last, baseDelay, finalDelay, result, err, raised>> /\ UNCHANGED restOfRetry

\* variant: the value returned is not the body of this response but a fixed one
RespondOk_Rewritten(payload) == /\ Sent("2xx", Response(200, NoHeader, TRUE, payload)) /\ ResponseOk(200) /\ pc' = "returned" /\ result' = "p1" /\ raised' = NoError /\ UNCHANGED <<attempt, baseDelay, finalDelay, err>>

\* the request is answered 2xx with body payload
RespondOk(payload) == /\ Sent("2xx", Response(200, NoHeader, TRUE, payload)) /\ ResponseOk(200) /\ pc' = "returned" /\ result' = payload /\ raised' = NoError /\ UNCHANGED <<attempt, baseDelay, finalDelay, err>>

\* the request is answered 429, with Retry-After header value retryAfter; k is the Math.random() draw
Respond429(retryAfter, k) == /\ Sent(IF Truthy(retryAfter) THEN "429+RA" ELSE "429", Response(429, retryAfter, TRUE, "none")) /\ LET delay == BaseDelay429(impl, retryAfter, attempt) IN LET final == FinalDelay429(impl, delay, k) IN CASE impl = "notionRequest" -> Sleep(delay, final) /\ raised' = NoError [] impl \in {"NotionClientSimple", "executeWithRetry"} -> IF RetriesLeft(attempt, maxRetries) THEN Sleep(delay, final) /\ raised' = NoError ELSE Catch(ApiError(impl, 429)) [] OTHER -> IF ~RetriesLeft(attempt, maxRetries) THEN Throw(ApiError(impl, 429)) /\ raised' = ApiError(impl, 429) ELSE Sleep(delay, final) /\ raised' = ApiError(impl, 429)

\* the spec's variant of a response status ("other": below 200 or 300-399, in no variant's range)
KindOf(status) == IF ResponseOk(status) THEN "2xx" ELSE IF status = 429 THEN "429" ELSE IF status >= 500 THEN "5xx" ELSE IF status >= 400 THEN "4xx" ELSE "other"

\* the request is answered with a status that is neither 2xx nor 429
RespondError(status) == /\ Sent(KindOf(status), Response(status, NoHeader, TRUE, "none")) /\ ~ResponseOk(status) /\ Catch(ApiError(impl, status))

\* does the loop call response.json() on a response of this status at this attempt?
ReadsBody(f, status, att, max) == CASE f = "notionRequest" -> ResponseOk(status) [] f \in {"NotionClientSimple", "executeWithRetry"} -> status # 429 \/ ~RetriesLeft(att, max) [] OTHER -> FALSE

\* the request is answered with a body that is not JSON, and the loop reads the body:
\* response.json() rejects inside the try block
RespondUnparseable(status) == /\ ReadsBody(impl, status, attempt, maxRetries) /\ Sent(KindOf(status), Response(status, NoHeader, FALSE, "none")) /\ Catch(JsonError)

\* the network call does not complete
FetchFails == /\ Sent("net", NoResponse) /\ Catch(FetchFailed)

\* the timer fires: attempt++, back to the loop condition; the block-scoped response and delays
\* of the finished iteration are gone
Wake == /\ pc = "sleep" /\ Continue(attempt + 1) /\ last' = NoResponse /\ baseDelay' = Num(0) /\ finalDelay' = Num(0) /\ raised' = NoError /\ UNCHANGED <<impl, maxRetries, requests, outcomes>> /\ UNCHANGED restOfRetry

Next == \/ Throttle \/ (\E payload \in Payloads : RespondOk(payload)) \/ (\E retryAfter \in HeaderValues, k \in 0..(RandomSteps - 1) : Respond429(retryAfter, k)) \/ (\E status \in ErrorStatuses : RespondError(status)) \/ (\E status \in UnparseableStatuses : RespondUnparseable(status)) \/ FetchFails \/ Wake

vars == <<retryVars, walkVars, cancelVars, throttleVars, reqVars, toolVars, queueVars, sessVars>>

Spec == Init /\ [][Next]_vars

(* ------------------- a retried call whose session closes ---------------- *)

\* transport.onclose while the call is suspended in a backoff sleep: the session is deleted
\* from the transports map; no loop holds an abort signal or a timer handle, so nothing of
\* the call changes
Cancel == /\ pc = "sleep" /\ ~cancelled /\ cancelled' = TRUE /\ requestsAtCancel' = requests /\ UNCHANGED <<retryVars, walkVars, throttleVars, reqVars, toolVars, queueVars, sessVars>>

CancelNext == Next \/ Cancel

\* the call is one of the loops that a tool call of a session runs into: the client classes
CancelInit == Init /\ impl \in RequestLoops

CancelSpec == CancelInit /\ [][CancelNext]_vars

(* -------------------------- one pagination walk ------------------------ *)

\* no retried call is running (the specification of the pagination walks)
RetryIdle == /\ impl = "none" /\ maxRetries = 0 /\ attempt = 0 /\ requests = 0 /\ outcomes = <<>> /\ last = NoResponse /\ baseDelay = Num(0) /\ finalDelay = Num(0) /\ result = "none" /\ pc = "idle" /\ err = NoError /\ raised = NoError

\* the walkers without a ceiling are explored up to one request past the largest ceiling
MaxWalkRequests == MaxPagesBound + 1

\* let allResults = [], cursor = undefined, pageCount = 0; the first request is unconditional
\* in the do-while loops and passes 0 < maxAttempts in paginateQuery
WalkInit == /\ walker \in Walkers /\ maxPages \in (IF walker \in CeilingWalkers THEN 1..MaxPagesBound ELSE {MaxPagesBound}) /\ cursor = NoCursor /\ allResults = <<>> /\ pageCount = 0 /\ wpc = "send" /\ walkRequests = 0 /\ outstanding = 0 /\ pagesFetched = 0 /\ lastSent = NoCursor /\ lastPage = NoPage /\ served = <<>> /\ listPages = TRUE /\ walkResult = WalkResult("pending", <<>>) /\ RetryIdle /\ CancelIdle /\ ThrottleIdle /\ ReqIdle /\ ToolIdle /\ QueueIdle /\ SessIdle

\* the walker calls the client with start_cursor: cursor
SendPage == /\ wpc = "send" /\ walkRequests < MaxWalkRequests /\ walkRequests' = walkRequests + 1 /\ outstanding' = outstanding + 1 /\ lastSent' = cursor /\ wpc' = AfterSend(walker) /\ UNCHANGED <<walker, maxPages, cursor, allResults, pageCount, pagesFetched, lastPage, served, listPages, walkResult>> /\ UNCHANGED restOfWalk

\* the request is answered with a page: the rest of the loop body, then the loop condition
PageArrives(results, has_more, next_cursor) ==
    LET response == Page(results, has_more, next_cursor)
        all == Concat(walker, allResults, response)
        count == IF walker \in CeilingWalkers THEN pageCount + 1 ELSE pageCount
    IN  /\ wpc = "await"
        /\ outstanding' = outstanding - 1
        /\ pagesFetched' = pagesFetched + 1
        /\ lastPage' = [has_more |-> has_more, next_cursor |-> next_cursor]
        /\ served' = served \o (IF results = NoResults THEN <<>> ELSE results[1])
        /\ listPages' = (listPages /\ results # NoResults)
        /\ allResults' = all
        /\ IF Breaks(walker, response)
              THEN (wpc' = "returned" /\ walkResult' = WalkResult("returned", all) /\ UNCHANGED <<cursor, pageCount>>)
              ELSE (/\ cursor' = next_cursor
                    /\ pageCount' = count
                    /\ wpc' = (IF LoopCond(walker, next_cursor, count, maxPages) THEN "send" ELSE "returned")
                    /\ walkResult' = (IF LoopCond(walker, next_cursor, count, maxPages) THEN walkResult ELSE WalkResult("returned", all)))
        /\ UNCHANGED <<walker, maxPages, walkRequests, lastSent>>
        /\ UNCHANGED restOfWalk

\* the request ends in a failure: the client throws, no walker has a try block, the error
\* leaves the walker and its locals are gone
PageFails == /\ wpc = "await" /\ outstanding' = outstanding - 1 /\ wpc' = "thrown" /\ walkResult' = WalkResult("thrown", <<>>) /\ allResults' = <<>> /\ cursor' = NoCursor /\ pageCount' = 0 /\ UNCHANGED <<walker, maxPages, walkRequests, pagesFetched, lastSent, lastPage, served, listPages>> /\ UNCHANGED restOfWalk

WalkNext == \/ SendPage \/ (\E results \in ResultsValues, has_more \in BOOLEAN, next_cursor \in Cursors : PageArrives(results, has_more, next_cursor)) \/ PageFails

WalkSpec == WalkInit /\ [][WalkNext]_vars


(* ===================== properties of the retry loops ===================== *)

\* the Response Outcome variants that the specification calls retryable
RetryableKinds == {"429", "429+RA", "5xx", "net"}

LastKind == outcomes[Len(outcomes)]

AllOutcomesIn(S) == \A i \in 1..Len(outcomes) : outcomes[i] \in S

Settled == pc \in {"returned", "thrown"}

InFlight == pc \in {"sleep", "fetch", "throttle"}

\* C1: a call whose first response is a ClientError (4xx other than 429) sends exactly one
\* request and surfaces the error at once.
C1_ClientErrorNeverRetried == (Len(outcomes) >= 1 /\ outcomes[1] = "4xx") => (requests = 1 /\ pc = "thrown")

\* C2: whatever the responses, the number of requests sent for one call never exceeds maxRetries.
C2_RequestsWithinMaxAttempts == requests <= maxRetries

C2_Witness == /\ pc = "thrown" /\ maxRetries >= 3 /\ requests = maxRetries /\ outcomes[1] = "net" /\ outcomes[2] = "429+RA" /\ LastKind = "5xx"

\* C3 (as stated): in the request loops, an attempt that ends RateLimited, ServerError or
\* TransportError while attempts remain is not surfaced, and ServerError / TransportError wait
\* the exponential delay of a 429 without Retry-After.
C3_RetryableNotSurfaced == (impl \in RequestLoops /\ Len(outcomes) >= 1 /\ LastKind \in RetryableKinds /\ requests < maxRetries) => (InFlight /\ (pc = "sleep" /\ LastKind # "429+RA" => baseDelay = Num((2 ^ (attempt + 1)) * 1000)))

\* C3 (amended): in the request loops, an attempt that ends RateLimited or TransportError while
\* attempts remain is not surfaced: the call sleeps and then sends another request, a
\* TransportError waiting the same 2^(attempt+1) * 1000 ms as a 429 without Retry-After; a
\* ServerError with a JSON body is surfaced at once as the API error and is not retried (one
\* whose body is not JSON fails in response.json() and is handled as a TransportError).
C3_RateLimitedAndTransportRetried == (impl \in RequestLoops /\ Len(outcomes) >= 1) => /\ (LastKind \in {"429", "429+RA", "net"} /\ requests < maxRetries => InFlight) /\ (pc = "sleep" /\ LastKind \in {"429", "net"} => baseDelay = Num((2 ^ (attempt + 1)) * 1000)) /\ (LastKind = "5xx" /\ last.status >= 500 /\ last.json => pc = "thrown" /\ err = ApiError(impl, last.status)) /\ (LastKind = "5xx" /\ last.status >= 500 /\ ~last.json /\ requests < maxRetries => pc = "sleep" /\ baseDelay = Num((2 ^ (attempt + 1)) * 1000))

C3_Witness == /\ impl = "NotionClientSimple" /\ maxRetries = 4 /\ outcomes = <<"net", "429", "5xx">> /\ last.status = 500 /\ last.json /\ pc = "thrown" /\ requests = 3 /\ err.status = 500

\* C4: if the first k < maxRetries attempts are answered 429 without Retry-After the call is
\* still in flight, and if attempt k+1 is then answered 2xx (with a JSON body) the call returns
\* that payload after exactly k+1 requests with no error.
C4_SuccessAfterRateLimits == \A k \in 0..(maxRetries - 1) : /\ (Len(outcomes) = k /\ AllOutcomesIn({"429"}) => InFlight) /\ (Len(outcomes) = k + 1 /\ LastKind = "2xx" /\ ResponseOk(last.status) /\ last.json /\ (\A i \in 1..k : outcomes[i] = "429") => pc = "returned" /\ requests = k + 1 /\ result = last.payload /\ result \in Payloads /\ err = NoError)

C4_Witness == /\ maxRetries = 4 /\ outcomes = <<"429", "429", "2xx">> /\ pc = "returned" /\ requests = 3 /\ result = "p2"

\* C5: a call whose maxRetries attempts all ended in a retryable failure settles with the
\* terminal 'Max retries exceeded' error wrapping the last failure.
C5_ExhaustionWrapsLastFailure == (Settled /\ requests >= 1 /\ requests = maxRetries /\ AllOutcomesIn(RetryableKinds)) => (pc = "thrown" /\ err.message = "Max retries exceeded" /\ err.cause # "none")

\* C6: no backoff delay is slept unless another request follows it.
C6_NoSleepAfterLastAttempt == pc = "sleep" => attempt + 1 < maxRetries

C8_ExponentialSchedule == (pc = "sleep" /\ LastKind \in {"429", "5xx", "net"}) => baseDelay = Num((2 ^ (attempt + 1)) * 1000)

\* C9: the delay slept after a 429 lies within the jitter fraction of the base delay d, in
\* [d * (1 - f), d * (1 + f)], and is never negative.
C9_JitterBounds == (impl \in JitterLoops /\ pc = "sleep" /\ last.status = 429 /\ ~baseDelay.nan) => /\ ~finalDelay.nan /\ finalDelay.n >= 0 /\ JitterDen(impl) * finalDelay.n >= (JitterDen(impl) - 1) * baseDelay.n /\ JitterDen(impl) * finalDelay.n <= (JitterDen(impl) + 1) * baseDelay.n

\* C10: on repeated 429s retryWithBackoff / withRetry with maxRetries 4 (3) wait 2 s, 4 s, 8 s
\* and 16 s (2 s, 4 s, 8 s): retry n waits 2^n seconds, and they give up only once maxRetries
\* retries have been made (attempt counts them: attempt++ follows every sleep).
C10_RetriesBeforeGivingUp == (impl \in {"retryWithBackoff", "withRetry"} /\ maxRetries \in {3, 4} /\ AllOutcomesIn({"429"})) => /\ (pc = "sleep" => baseDelay = Num((2 ^ (attempt + 1)) * 1000)) /\ (pc = "thrown" => attempt = maxRetries)

(* ------------------ classification of one attempt (C11, C12) ------------------ *)

\* a request loop has just finished an attempt
Attempted == impl \in RequestLoops /\ requests >= 1 /\ pc \in {"sleep", "thrown", "returned"}

\* the latest attempt raised the API error of its response (NotionClientSimple copies the status
\* onto the error, executeWithRetry keeps it in the message only)
ApiErrorRaised == /\ pc = "thrown" /\ err = raised /\ raised.message = (IF impl = "NotionClientSimple" THEN "data.message" ELSE "Notion API error") /\ raised.status = (IF impl = "NotionClientSimple" THEN last.status ELSE 0)

IsSuccess == pc = "returned" /\ raised = NoError /\ result = last.payload /\ ResponseOk(last.status)

IsRateLimited == last.status = 429 /\ LastKind \in {"429", "429+RA"} /\ ((pc = "sleep" /\ raised = NoError) \/ ApiErrorRaised)

IsClientError == last.status \in (400..499) \ {429} /\ ApiErrorRaised

IsServerError == last.status >= 500 /\ ApiErrorRaised

IsTransportError == LastKind = "net" /\ raised = FetchFailed /\ pc \in {"sleep", "thrown"}

\* a status in no variant's range (below 200, 300-399) raised as an API error
IsOtherApiError == last.status # 0 /\ (last.status < 200 \/ last.status \in 300..399) /\ ApiErrorRaised

\* the body was not JSON: response.json() rejected, which the catch block treats as a network error
IsUnparseable == ~last.json /\ raised = JsonError /\ pc \in {"sleep", "thrown"}

\* the Response Outcome variants that hold of the latest attempt
OutcomeVariants == (IF IsSuccess THEN {"Success"} ELSE {}) \cup (IF IsRateLimited THEN {"RateLimited"} ELSE {}) \cup (IF IsClientError THEN {"ClientError"} ELSE {}) \cup (IF IsServerError THEN {"ServerError"} ELSE {}) \cup (IF IsTransportError THEN {"TransportError"} ELSE {})

\* C11 (as stated): of every attempt exactly one of the five Response Outcome variants holds,
\* also for statuses below 200 and in 300-399.
C11_ExactlyOneVariant == Attempted => Cardinality(OutcomeVariants) = 1

\* C11 (amended): an attempt whose response has a JSON body is Success for 200-299, RateLimited
\* for 429, ClientError for any other 400-499 and ServerError for 500 and above, and a network
\* call that does not complete is TransportError, each exclusively; a status below 200 or in
\* 300-399 is raised as an API error like a ClientError but is in none of the five ranges, and
\* a body that is not JSON is handled as a network error whatever the status.
C11_OutcomeByStatus == Attempted => /\ Cardinality(OutcomeVariants \cup (IF IsOtherApiError THEN {"other"} ELSE {}) \cup (IF IsUnparseable THEN {"unparseable"} ELSE {})) = 1 /\ (LastKind = "net" <=> IsTransportError) /\ (LastKind # "net" /\ last.json => /\ (ResponseOk(last.status) <=> IsSuccess) /\ (last.status = 429 <=> IsRateLimited) /\ (last.status \in (400..499) \ {429} <=> IsClientError) /\ (last.status >= 500 <=> IsServerError) /\ (last.status < 200 \/ last.status \in 300..399 <=> IsOtherApiError)) /\ (LastKind # "net" /\ ~last.json => IsUnparseable /\ OutcomeVariants = {})

C11_Witness == /\ impl = "NotionClientSimple" /\ maxRetries = 3 /\ outcomes = <<"net", "other">> /\ last.status = 304 /\ last.json /\ pc = "thrown" /\ raised.status = 304 /\ OutcomeVariants = {}

\* C12 (as stated): an attempt never throws for a classified case.
C12_ExecutorNeverThrows == Attempted => raised = NoError

\* C12 (amended): an attempt ends without an exception only for Success (the body is returned)
\* and for a 429 with retries left (slept in place); every other case is an exception inside
\* the try block: the API error for a response that is not ok, the rejection of fetch() for a
\* network failure, the rejection of response.json() for a body that is not JSON. The catch
\* block sleeps and retries only errors without a status while retries are left, and rethrows
\* every other error unchanged.
C12_FailuresAreThrown == Attempted => /\ (raised = NoError <=> (pc = "returned" \/ (pc = "sleep" /\ last.status = 429))) /\ (raised # NoError => /\ raised = (IF LastKind = "net" THEN FetchFailed ELSE IF ~last.json THEN JsonError ELSE ApiError(impl, last.status)) /\ (pc = "thrown" => err = raised) /\ (pc = "sleep" <=> RetriesLeft(attempt, maxRetries) /\ raised \in {FetchFailed, JsonError}))

C12_Witness == /\ impl = "executeWithRetry" /\ maxRetries = 3 /\ outcomes = <<"429", "net", "5xx">> /\ pc = "thrown" /\ raised = ApiError("executeWithRetry", 500) /\ err = raised /\ requests = 3

\* C25: on Success the value returned to the caller is the parsed JSON body of the response
\* that ended the call, unchanged, and no error is set.
C25_SuccessBodyVerbatim == pc = "returned" => /\ result = last.payload /\ result \in Payloads /\ last.json /\ ResponseOk(last.status) /\ err = NoError

C25_Witness == /\ impl = "notionRequest" /\ pc = "returned" /\ outcomes = <<"5xx", "2xx">> /\ requests = 2 /\ result = "p2" /\ last.payload = "p2"

\* C27: once the operation is cancelled during a backoff sleep, the sleep is abandoned: no
\* further request is sent for it and no result or error is delivered.
C27_CancelAbandons == cancelled => (requests = requestsAtCancel /\ ~Settled)

(* ---------------------- callers of one rate limiter --------------------- *)

Callers == 1..NumCallers

\* Math.max(0, this.interval - timeSinceLastRequest), timeSinceLastRequest = now - this.lastRequest
WaitTime(int, t, lastReq) == IF int - (t - lastReq) > 0 THEN int - (t - lastReq) ELSE 0

\* constructor: this.interval = 1000 / requestsPerSecond, this.lastRequest = 0; Date.now() is
\* far more than one interval after time 0
ThrottleInit == /\ interval \in 1..MaxIntervalBound /\ lastRequest = 0 /\ now = MaxIntervalBound /\ tpc = [c \in Callers |-> "idle"] /\ wakeAt = [c \in Callers |-> 0] /\ started = [c \in Callers |-> -1] /\ RetryIdle /\ WalkIdle /\ CancelIdle /\ ReqIdle /\ ToolIdle /\ QueueIdle /\ SessIdle

\* time passes; the clock runs past the latest possible wake-up of every caller
Tick == /\ now < ((NumCallers + 2) * MaxIntervalBound) /\ now' = now + 1 /\ UNCHANGED <<interval, lastRequest, tpc, wakeAt, started>> /\ UNCHANGED restOfThrottle

\* caller c enters throttle(): the body runs up to its await; with nothing to wait for it runs
\* to the end at once (this.lastRequest = Date.now()) and the request of c starts
Enter(c) ==
    LET waitTime == WaitTime(interval, now, lastRequest)
    IN  /\ tpc[c] = "idle"
        /\ IF waitTime > 0
              THEN (/\ tpc' = [tpc EXCEPT ![c] = "waiting"]
                    /\ wakeAt' = [wakeAt EXCEPT ![c] = now + waitTime]
                    /\ UNCHANGED <<lastRequest, started>>)
              ELSE (/\ tpc' = [tpc EXCEPT ![c] = "done"]
                    /\ lastRequest' = now
                    /\ started' = [started EXCEPT ![c] = now]
                    /\ UNCHANGED wakeAt)
        /\ UNCHANGED <<interval, now>>
        /\ UNCHANGED restOfThrottle

\* the timer of caller c fires (no earlier than it was set for): this.lastRequest = Date.now(),
\* throttle() returns and the request of c starts
Resume(c) == /\ tpc[c] = "waiting" /\ now >= wakeAt[c] /\ tpc' = [tpc EXCEPT ![c] = "done"] /\ lastRequest' = now /\ started' = [started EXCEPT ![c] = now] /\ UNCHANGED wakeAt /\ UNCHANGED <<interval, now>> /\ UNCHANGED restOfThrottle

ThrottleNext == \/ Tick \/ (\E c \in Callers : Enter(c)) \/ (\E c \in Callers : Resume(c))

ThrottleSpec == ThrottleInit /\ [][ThrottleNext]_vars

\* C30: any two requests that passed the same limiter's throttle() started at least interval
\* apart, whether the callers entered one after the other or concurrently.
C30_StartsSpacedByInterval == \A c, d \in Callers : (c # d /\ started[c] >= 0 /\ started[d] >= 0) => (started[c] - started[d] >= interval \/ started[d] - started[c] >= interval)

(* ------------------- the request of one client method ------------------- *)

\* pageSize = 100, the default parameter of queryDatabase
DefaultPageSize == 100

\* page_size?: number;  // Max 100
MaxPageSize == 100

\* an argument the caller did not pass (undefined); a passed argument is <<value>>
Undefined == <<>>

\* a JavaScript default parameter (pageSize = 100): the default replaces undefined only
Default(x, d) == IF x = Undefined THEN <<d>> ELSE x

\* the methods of NotionClientSimple, and the methods of NotionClientWrapper that the tests pin
SimpleMethods == {"request", "retrievePage", "queryDatabase"}

NoArgs == [id |-> Undefined, property_id |-> Undefined, filter |-> Undefined, sorts |-> Undefined, start_cursor |-> Undefined, page_size |-> Undefined, properties |-> Undefined, archived |-> Undefined, children |-> Undefined]

\* the argument lists a caller can pass to each method
ArgsOf(m) ==
    CASE m = "queryDatabase" -> {[NoArgs EXCEPT !.id = <<"db1">>, !.filter = f, !.sorts = s, !.start_cursor = c, !.page_size = n] : f \in {Undefined, <<"f1">>}, s \in {Undefined, <<"s1">>}, c \in {Undefined, <<"cursor-xyz">>}, n \in {Undefined, <<25>>, <<DefaultPageSize>>, <<DefaultPageSize + 1>>}}
      [] m = "retrievePagePropertyItem" -> {[NoArgs EXCEPT !.id = <<"page123">>, !.property_id = <<"prop123">>, !.start_cursor = c, !.page_size = n] : c \in {Undefined, <<"cursor-xyz">>}, n \in {Undefined, <<25>>, <<DefaultPageSize>>, <<DefaultPageSize + 1>>}}
      [] m = "updatePageProperties" -> {[NoArgs EXCEPT !.id = <<"page123">>, !.properties = <<p>>, !.archived = a] : p \in {"{}", "props"}, a \in {Undefined, <<TRUE>>, <<FALSE>>}}
      [] m = "createPage" -> {[NoArgs EXCEPT !.id = <<"parent1">>, !.properties = <<"props">>, !.children = c] : c \in {Undefined, <<"[]">>, <<"blocks">>}}
      [] OTHER -> {[NoArgs EXCEPT !.id = <<"page123">>]}

\* this.headers of the constructor
ThisHeaders == ("Authorization" :> <<"Bearer", "secret_token">>) @@ ("Content-Type" :> <<"application/json">>) @@ ("Notion-Version" :> <<"2022-06-28">>)

\* options.headers of a direct call of request(endpoint, options)
OptionsHeaders == {Undefined, ("X-Request-Id" :> <<"r1">>), ("Authorization" :> <<"Bearer", "other_token">>), ("Notion-Version" :> <<"2021-08-16">>), ("Content-Type" :> <<"text/plain">>) @@ ("X-Request-Id" :> <<"r1">>)}

\* { ...a, ...b }: the keys of both, b's value where both have the key
Spread_KeepFirst(a, b) == [k \in DOMAIN a \cup DOMAIN b |-> IF k \in DOMAIN a THEN a[k] ELSE b[k]]

Spread(a, b) == [k \in DOMAIN a \cup DOMAIN b |-> IF k \in DOMAIN b THEN b[k] ELSE a[k]]

\* JSON.stringify of an object literal, as <<key, value>> pairs in order: a key whose value is
\* undefined is left out
JSON_stringify(object) == SelectSeq(object, LAMBDA pair : pair[2] # Undefined)

\* the body of updatePageProperties(page_id, properties, archived): { properties } and the
\* archived key when archived was passed, true or false
UpdatePagePropertiesBody_Truthy(a) == JSON_stringify(<< <<"properties", a.properties>>, <<"archived", IF a.archived = <<TRUE>> THEN a.archived ELSE Undefined>> >>)

UpdatePagePropertiesBody(a) == JSON_stringify(<< <<"properties", a.properties>>, <<"archived", a.archived>> >>)

\* a number in a URL is its decimal text
NumberText(n) == IF n = Undefined THEN Undefined ELSE <<ToString(n[1])>>

\* key=value joined by &, after a ? when there is any parameter
RECURSIVE JoinParams(_)
JoinParams(params) == IF params = <<>> THEN <<>> ELSE <<params[1][1], "=", params[1][2][1]>> \o (IF Len(params) = 1 THEN <<>> ELSE <<"&">> \o JoinParams(Tail(params)))

\* the query parameters of retrievePagePropertyItem: start_cursor, then page_size, each when
\* it was passed
PropertyItemParams_SizeFirst(a) == SelectSeq(<< <<"page_size", NumberText(a.page_size)>>, <<"start_cursor", a.start_cursor>> >>, LAMBDA pair : pair[2] # Undefined)

PropertyItemParams(a) == SelectSeq(<< <<"start_cursor", a.start_cursor>>, <<"page_size", NumberText(a.page_size)>> >>, LAMBDA pair : pair[2] # Undefined)

BaseUrl == "https://api.notion.com/v1"

PropertyItemPath(a) == <<BaseUrl, "/pages/", a.id[1], "/properties/", a.property_id[1]>>

\* the URL of a request, in pieces: `${this.baseUrl}${endpoint}`
Url(m, a) ==
    CASE m = "request" -> <<BaseUrl, "/users/me">>
      [] m = "retrievePage" -> <<BaseUrl, "/pages/", a.id[1]>>
      [] m = "queryDatabase" -> <<BaseUrl, "/databases/", a.id[1], "/query">>
      [] m = "retrievePagePropertyItem" -> PropertyItemPath(a) \o (IF PropertyItemParams(a) = <<>> THEN <<>> ELSE <<"?">> \o JoinParams(PropertyItemParams(a)))
      [] m = "updatePageProperties" -> <<BaseUrl, "/pages/", a.id[1]>>
      [] m = "createPage" -> <<BaseUrl, "/pages">>

Body(m, a) == CASE m = "queryDatabase" -> JSON_stringify(<< <<"filter", Default(a.filter, "{}")>>, <<"sorts", Default(a.sorts, "[]")>>, <<"start_cursor", a.start_cursor>>, <<"page_size", Default(a.page_size, DefaultPageSize)>> >>) [] m = "updatePageProperties" -> UpdatePagePropertiesBody(a) [] m = "createPage" -> JSON_stringify(<< <<"parent", a.id>>, <<"properties", a.properties>>, <<"children", a.children>> >>) [] OTHER -> Undefined

\* the arguments of fetch: the URL and { ...options, headers: { ...this.headers, ...options.headers } },
\* options holding the method and the body of the API method
FetchArgs(m, a, headers) == [url |-> Url(m, a), method |-> (CASE m = "queryDatabase" -> "POST" [] m = "createPage" -> "POST" [] m = "updatePageProperties" -> "PATCH" [] OTHER -> "GET"), body |-> Body(m, a), headers |-> Spread(ThisHeaders, headers)]

\* a caller calls one method of a client; only request() takes options from its caller, the
\* API methods pass options without headers
RequestInit == /\ method \in (SimpleMethods \cup {"retrievePagePropertyItem", "updatePageProperties", "createPage"}) /\ args \in ArgsOf(method) /\ optionsHeaders \in (IF method = "request" THEN OptionsHeaders ELSE {Undefined}) /\ rpc = "fetch" /\ sent = <<>> /\ RetryIdle /\ WalkIdle /\ CancelIdle /\ ThrottleIdle /\ ToolIdle /\ QueueIdle /\ SessIdle

\* await fetch(...) of the current attempt
Fetch == /\ rpc = "fetch" /\ sent' = Append(sent, FetchArgs(method, args, optionsHeaders)) /\ rpc' = "await" /\ UNCHANGED <<method, args, optionsHeaders>> /\ UNCHANGED restOfRequest

\* the attempt ends in a 429 or a network error with attempts left: attempt++; continue
Retry == /\ rpc = "await" /\ method \in SimpleMethods /\ Len(sent) < MaxSends /\ rpc' = "fetch" /\ UNCHANGED <<method, args, optionsHeaders, sent>> /\ UNCHANGED restOfRequest

\* the call returns or throws
Settle == /\ rpc = "await" /\ rpc' = "settled" /\ UNCHANGED <<method, args, optionsHeaders, sent>> /\ UNCHANGED restOfRequest

RequestNext == Fetch \/ Retry \/ Settle

RequestSpec == RequestInit /\ [][RequestNext]_vars

(* ================== properties of the requests of the client ================== *)

Positions(seq, token) == {i \in 1..Len(seq) : seq[i] = token}

BodyKeys(body) == {body[i][1] : i \in 1..Len(body)}

\* the value of a key of a body, undefined when the body has no such key
BodyValue(body, key) == IF key \in BodyKeys(body) THEN body[CHOOSE i \in 1..Len(body) : body[i][1] = key][2] ELSE Undefined

\* the text that follows key= in a URL, undefined when the URL has no such parameter
UrlValue(url, key) == IF Positions(url, key) = {} THEN Undefined ELSE <<url[(CHOOSE i \in Positions(url, key) : TRUE) + 2]>>

PagedMethods == {"queryDatabase", "retrievePagePropertyItem"}

\* the page_size a request carries, as text, in its body or in its URL
SentPageSize(m, request) == IF m = "queryDatabase" THEN NumberText(BodyValue(request.body, "page_size")) ELSE UrlValue(request.url, "page_size")

\* the page size the interface asks for: 100 when the caller passed none, at most 100 otherwise
ClampedPageSize(n) == IF n = Undefined THEN MaxPageSize ELSE IF n[1] > MaxPageSize THEN MaxPageSize ELSE n[1]

\* C22: every request of a method that takes a page size carries page_size, with the caller's
\* value clamped to 100, and with 100 when the caller passed none.
C22_PageSizeClamped == \A i \in 1..Len(sent) : method \in PagedMethods => SentPageSize(method, sent[i]) = <<ToString(ClampedPageSize(args.page_size))>>

\* C23: the URL of retrievePagePropertyItem is the path alone when neither start_cursor nor
\* page_size was passed; each passed parameter appears exactly once, with the caller's value,
\* an absent one not at all, and start_cursor comes before page_size.
C23_PropertyItemUrl ==
    \A i \in 1..Len(sent) : method = "retrievePagePropertyItem" =>
        LET url == sent[i].url
            cursorAt == Positions(url, "start_cursor")
            sizeAt == Positions(url, "page_size")
        IN  /\ SubSeq(url, 1, Len(PropertyItemPath(args))) = PropertyItemPath(args)
            /\ (args.start_cursor = Undefined /\ args.page_size = Undefined) => url = PropertyItemPath(args)
            /\ Cardinality(cursorAt) = (IF args.start_cursor = Undefined THEN 0 ELSE 1)
            /\ Cardinality(sizeAt) = (IF args.page_size = Undefined THEN 0 ELSE 1)
            /\ UrlValue(url, "start_cursor") = args.start_cursor
            /\ UrlValue(url, "page_size") = NumberText(args.page_size)
            /\ \A c \in cursorAt, s \in sizeAt : c < s
            /\ Cardinality(Positions(url, "?")) = (IF cursorAt \cup sizeAt = {} THEN 0 ELSE 1)
            /\ Cardinality(Positions(url, "&")) = (IF cursorAt # {} /\ sizeAt # {} THEN 1 ELSE 0)

C23_Witness == /\ method = "retrievePagePropertyItem" /\ args.start_cursor = <<"cursor-xyz">> /\ args.page_size = <<25>> /\ rpc = "settled" /\ Len(sent) = 1 /\ sent[1].url = <<BaseUrl, "/pages/", "page123", "/properties/", "prop123", "?", "start_cursor", "=", "cursor-xyz", "&", "page_size", "=", "25">>

\* C24: the body of updatePageProperties has the archived key exactly when archived was
\* passed, true or false, with the value passed; the body of createPage has the children key
\* exactly when children was passed, with the value passed.
C24_OptionalKeyIffPassed ==
    \A i \in 1..Len(sent) :
        /\ method = "updatePageProperties" => (/\ ("archived" \in BodyKeys(sent[i].body)) = (args.archived # Undefined)
                                                /\ BodyValue(sent[i].body, "archived") = args.archived
                                                /\ BodyValue(sent[i].body, "properties") = args.properties)
        /\ method = "createPage" => (/\ ("children" \in BodyKeys(sent[i].body)) = (args.children # Undefined)
                                      /\ BodyValue(sent[i].body, "children") = args.children)

C24_Witness == /\ method = "updatePageProperties" /\ args.archived = <<FALSE>> /\ rpc = "settled" /\ Len(sent) = 1 /\ sent[1].body = << <<"properties", args.properties>>, <<"archived", <<FALSE>>>> >>

\* C28 as stated: every request, every retry included, carries the three fixed headers of
\* the client with their fixed values, whatever the options of the call.
C28_FixedHeadersAlways == \A i \in 1..Len(sent) : \A k \in DOMAIN ThisHeaders : k \in DOMAIN sent[i].headers /\ sent[i].headers[k] = ThisHeaders[k]

\* C28 amended: every request, every retry included, carries the three headers; each has the
\* fixed value of the client unless options.headers of the call names the same header, whose
\* value then replaces it; the API methods pass no headers and always send the fixed values.
C28_FixedHeadersUnlessOverridden ==
    \A i \in 1..Len(sent) :
        /\ \A k \in DOMAIN ThisHeaders : k \in DOMAIN sent[i].headers /\ sent[i].headers[k] = (IF k \in DOMAIN optionsHeaders THEN optionsHeaders[k] ELSE ThisHeaders[k])
        /\ method # "request" => sent[i].headers = ThisHeaders
        /\ sent[i].headers = sent[1].headers

C28_Witness == /\ method = "request" /\ "Content-Type" \in DOMAIN optionsHeaders /\ Len(sent) = 2 /\ sent[2].headers["Authorization"] = <<"Bearer", "secret_token">> /\ sent[2].headers["Content-Type"] = <<"text/plain">> /\ sent[2].headers["Notion-Version"] = <<"2022-06-28">>

(* ------------------------ one CallTool request ------------------------- *)

\* the tools the handler routes that are modelled, one for each shape of case, and a name
\* the switch has no case for
RoutedTools == {"notion_retrieve_page", "notion_update_page_properties", "notion_query_database", "notion_retrieve_block_children", "notion_list_all_users", "notion_retrieve_bot_user"}

NoToolArgs == [page_id |-> Undefined, properties |-> Undefined, archived |-> Undefined, database_id |-> Undefined, block_id |-> Undefined, filter |-> Undefined, sorts |-> Undefined, start_cursor |-> Undefined, page_size |-> Undefined]

\* an identifier argument: absent, the empty string, or an identifier
IdArgs == {Undefined, <<"">>, <<"id1">>}

\* request.params.arguments of a request: undefined, or an object
ArgumentsOf(t) ==
    {Undefined} \cup
    CASE t = "notion_retrieve_page" -> {<<[NoToolArgs EXCEPT !.page_id = i]>> : i \in IdArgs}
      [] t = "notion_update_page_properties" -> {<<[NoToolArgs EXCEPT !.page_id = i, !.properties = p, !.archived = a]>> : i \in IdArgs, p \in {Undefined, <<"props">>}, a \in {Undefined, <<TRUE>>}}
      [] t = "notion_query_database" -> {<<[NoToolArgs EXCEPT !.database_id = i, !.filter = f, !.page_size = n]>> : i \in IdArgs, f \in {Undefined, <<"f1">>}, n \in {Undefined, <<MaxPageSize + 1>>}}
      [] t = "notion_retrieve_block_children" -> {<<[NoToolArgs EXCEPT !.block_id = i, !.start_cursor = c, !.page_size = n]>> : i \in IdArgs, c \in {Undefined, <<"cursor-xyz">>}, n \in {Undefined, <<MaxPageSize + 1>>}}
      [] t = "notion_list_all_users" -> {<<[NoToolArgs EXCEPT !.start_cursor = c]>> : c \in {Undefined, <<"cursor-xyz">>}}
      [] OTHER -> {<<NoToolArgs>>}

\* !x of an argument: undefined and the empty string are falsy
Falsy(x) == x = Undefined \/ x = <<"">>

\* a validation that tests only the first argument of each case
MissingArgument_FirstOnly(t, a) ==
    CASE t = "notion_retrieve_page" /\ Falsy(a.page_id) -> <<"Missing required argument: page_id">>
      [] t = "notion_update_page_properties" /\ Falsy(a.page_id) -> <<"Missing required arguments: page_id and properties">>
      [] t = "notion_query_database" /\ Falsy(a.database_id) -> <<"Missing required argument: database_id">>
      [] t = "notion_retrieve_block_children" /\ Falsy(a.block_id) -> <<"Missing required argument: block_id">>
      [] OTHER -> Undefined

\* the message of the error a case throws before it calls the client, undefined when the
\* arguments pass
MissingArgument(t, a) ==
    CASE t = "notion_retrieve_page" /\ Falsy(a.page_id) -> <<"Missing required argument: page_id">>
      [] t = "notion_update_page_properties" /\ (Falsy(a.page_id) \/ Falsy(a.properties)) -> <<"Missing required arguments: page_id and properties">>
      [] t = "notion_query_database" /\ Falsy(a.database_id) -> <<"Missing required argument: database_id">>
      [] t = "notion_retrieve_block_children" /\ Falsy(a.block_id) -> <<"Missing required argument: block_id">>
      [] OTHER -> Undefined

\* the method of notionClient a case calls, and the arguments it passes, in order
ClientCall(t, a) ==
    CASE t = "notion_retrieve_page" -> [method |-> "retrievePage", args |-> <<a.page_id>>]
      [] t = "notion_update_page_properties" -> [method |-> "updatePageProperties", args |-> <<a.page_id, a.properties>>]
      [] t = "notion_query_database" -> [method |-> "queryDatabase", args |-> <<a.database_id, a.filter, a.sorts, a.start_cursor, a.page_size>>]
      [] t = "notion_retrieve_block_children" -> [method |-> "retrieveBlockChildren", args |-> <<a.block_id, a.start_cursor, a.page_size>>]
      [] t = "notion_list_all_users" -> [method |-> "listAllUsers", args |-> <<a.start_cursor, a.page_size>>]
      [] t = "notion_retrieve_bot_user" -> [method |-> "retrieveBotUser", args |-> <<>>]

\* process.env.NOTION_MARKDOWN_CONVERSION === 'true'
EnableMarkdownConversion(env) == env = <<"true">>

\* a JSON value as JavaScript sees it: its typeof, whether it is truthy, and its members
JsonValue(type, truthy, members) == [type |-> type, truthy |-> truthy, members |-> members]

\* what a client method resolves with: a page object, a list object, null, a string
ResponseValues == {JsonValue("object", TRUE, << <<"object", <<"page">>>>, <<"id", <<"id1">>>> >>), JsonValue("object", TRUE, << <<"object", <<"list">>>>, <<"results", <<"[]">>>>, <<"has_more", <<"false">>>> >>), JsonValue("object", FALSE, <<>>), JsonValue("string", TRUE, << <<"", <<"ok">>>> >>)}

\* what is thrown: an Error with a message, or a value that is no Error
ErrorValue(isError, text) == [isError |-> isError, text |-> text]

\* JSON.stringify(value, null, 2): the text of the value, in the JSON format
JsonText(value) == [format |-> "json", of |-> [value EXCEPT !.members = JSON_stringify(value.members)]]

\* the result the handler returns: { content: [{ type: 'text', text }] }
ToolResult(text) == [content |-> <<[type |-> "text", text |-> text]>>]

\* the format step: both branches return JSON.stringify(response, null, 2) as the text
Format(enabled, response) ==
    IF enabled /\ response.truthy /\ response.type = "object"
       THEN LET markdown == JsonText(response) IN ToolResult(markdown)
       ELSE ToolResult(JsonText(response))

\* a catch block that serializes the caught value itself: an Error has no enumerable
\* members, anything else is its own JSON
ErrorResult_Rethrown(error) == ToolResult(JsonText(IF error.isError THEN JsonValue("object", TRUE, <<>>) ELSE JsonValue("string", TRUE, << <<"", <<error.text>>>> >>)))

\* the catch block: the text is JSON.stringify({ error: message }), the message being
\* error.message of an Error and String(error) of anything else
ErrorResult(error) == ToolResult(JsonText(JsonValue("object", TRUE, << <<"error", <<error.text>>>> >>)))

\* the server has received a CallTool request
ToolInit == /\ tool \in (RoutedTools \cup {"notion_create_page"}) /\ arguments \in ArgumentsOf(tool) /\ markdownEnv \in {Undefined, <<"true">>, <<"false">>, <<"1">>} /\ hpc = "received" /\ called = <<>> /\ caught = Undefined /\ resolved = Undefined /\ toolResult = [content |-> <<>>] /\ RetryIdle /\ WalkIdle /\ CancelIdle /\ ThrottleIdle /\ ReqIdle /\ QueueIdle /\ SessIdle

\* the handler runs up to its first await: it throws for a missing arguments object, a
\* missing required argument or an unknown tool, the catch block returns the error result;
\* otherwise it calls the client and awaits
Dispatch ==
    LET failure == IF arguments = Undefined THEN <<"No arguments provided">>
                   ELSE IF tool \notin RoutedTools THEN <<"Unknown tool: " \o tool>>
                   ELSE MissingArgument(tool, arguments[1])
    IN  /\ hpc = "received"
        /\ IF failure # Undefined
              THEN (/\ caught' = <<ErrorValue(TRUE, failure[1])>>
                    /\ toolResult' = ErrorResult(ErrorValue(TRUE, failure[1]))
                    /\ hpc' = "returned"
                    /\ UNCHANGED called)
              ELSE (/\ called' = Append(called, ClientCall(tool, arguments[1]))
                    /\ hpc' = "await"
                    /\ UNCHANGED <<caught, toolResult>>)
        /\ UNCHANGED <<tool, arguments, markdownEnv, resolved>>
        /\ UNCHANGED restOfTool

\* the client method resolves: the format step returns the result
ClientResolves(response) == /\ hpc = "await" /\ resolved' = <<response>> /\ toolResult' = Format(EnableMarkdownConversion(markdownEnv), response) /\ hpc' = "returned" /\ UNCHANGED <<tool, arguments, markdownEnv, called, caught>> /\ UNCHANGED restOfTool

\* the client method rejects: the catch block returns the error result
ClientRejects(error) == /\ hpc = "await" /\ caught' = <<error>> /\ toolResult' = ErrorResult(error) /\ hpc' = "returned" /\ UNCHANGED <<tool, arguments, markdownEnv, called, resolved>> /\ UNCHANGED restOfTool

ToolNext == \/ Dispatch \/ (\E response \in ResponseValues : ClientResolves(response)) \/ (\E error \in {ErrorValue(TRUE, "Notion API error"), ErrorValue(TRUE, "fetch failed"), ErrorValue(FALSE, "aborted")} : ClientRejects(error))

ToolSpec == ToolInit /\ [][ToolNext]_vars

(* ==================== properties of the CallTool handler ==================== *)

\* the object the text of a result is the JSON of
ResultObject(r) == r.content[1].text.of

\* the result is a successful payload: the text of what the client resolved with
IsSuccessResult(r) == /\ resolved # Undefined /\ Len(r.content) = 1 /\ r.content[1].text = JsonText(resolved[1]) /\ "isError" \notin DOMAIN r

\* the result is flagged partial
IsPartialResult(r) == "partial" \in DOMAIN r

\* the result is a terminal error: it is flagged as an error and carries kind, message and
\* retryable
IsTerminalError(r) == /\ Len(r.content) = 1 /\ "isError" \in DOMAIN r /\ {"kind", "message", "retryable"} \subseteq BodyKeys(ResultObject(r).members)

\* C21: a settled tool call delivers a successful payload when the client resolved, and a
\* terminal error carrying kind, message and retryable flag when the call failed, never a
\* result that reads as an unflagged success.
C21_FailureIsTerminalError == hpc = "returned" => IF caught = Undefined THEN IsSuccessResult(toolResult) /\ ~IsTerminalError(toolResult) ELSE IsTerminalError(toolResult) /\ ~IsSuccessResult(toolResult) /\ ~IsPartialResult(toolResult)

\* C29: with NOTION_MARKDOWN_CONVERSION 'true' the text of an object response is in the
\* markdown format, which is not the JSON text the other settings return for the response.
C29_MarkdownDiffersFromJson == (hpc = "returned" /\ resolved # Undefined /\ resolved[1].truthy /\ resolved[1].type = "object") => IF markdownEnv = <<"true">> THEN toolResult.content[1].text.format = "markdown" /\ toolResult # Format(FALSE, resolved[1]) ELSE toolResult.content[1].text.format = "json"

\* the arguments each case of the handler names in its "Missing required argument(s)" error
RequiredArguments(t) ==
    CASE t = "notion_retrieve_page" -> {"page_id"}
      [] t = "notion_update_page_properties" -> {"page_id", "properties"}
      [] t = "notion_query_database" -> {"database_id"}
      [] t = "notion_retrieve_block_children" -> {"block_id"}
      [] OTHER -> {}

\* the request does not pass the handler's validation: no arguments object, a name the switch
\* has no case for, or a required argument that is absent
FailsValidation == arguments = Undefined \/ tool \notin RoutedTools \/ \E k \in RequiredArguments(tool) : arguments[1][k] = Undefined

\* C37: the handler always returns a result and never throws: when anything was thrown (no
\* arguments object, unknown tool, missing required argument, a rejected client call) the
\* result has one text content that is the JSON of {error: message}, and when the client
\* call resolved the one text content is the JSON of the response.
C37_HandlerNeverThrows ==
    /\ hpc \in {"received", "await", "returned"}
    /\ (hpc # "received" /\ FailsValidation) => (hpc = "returned" /\ caught # Undefined)
    /\ (hpc = "returned" /\ arguments = Undefined) => caught[1].text = "No arguments provided"
    /\ (hpc = "returned" /\ arguments # Undefined /\ tool \notin RoutedTools) => caught[1].text = "Unknown tool: " \o tool
    /\ hpc = "returned" =>
          /\ Len(toolResult.content) = 1
          /\ DOMAIN toolResult = {"content"}
          /\ toolResult.content[1].type = "text"
          /\ toolResult.content[1].text.format = "json"
          /\ (caught = Undefined) # (resolved = Undefined)
          /\ caught # Undefined => (ResultObject(toolResult).type = "object" /\ ResultObject(toolResult).members = << <<"error", <<caught[1].text>>>> >>)
          /\ resolved # Undefined => ResultObject(toolResult) = [resolved[1] EXCEPT !.members = JSON_stringify(@)]

C37_Witness == /\ hpc = "returned" /\ called # <<>> /\ caught = <<ErrorValue(FALSE, "aborted")>> /\ ResultObject(toolResult).members = << <<"error", <<"aborted">>>> >>

\* C38: the client is called at most once for a request and only for a request that passed
\* validation: without an arguments object (also for notion_retrieve_bot_user), or with a
\* required argument absent, no client method is called and the error result is returned.
C38_ClientCalledOnlyAfterValidation ==
    /\ Len(called) <= 1
    /\ called # <<>> => (~FailsValidation /\ called[1] = ClientCall(tool, arguments[1]))
    /\ (hpc # "received" /\ FailsValidation) => (called = <<>> /\ hpc = "returned" /\ "error" \in BodyKeys(ResultObject(toolResult).members))
    /\ (hpc # "received" /\ ~FailsValidation /\ \A k \in RequiredArguments(tool) : ~Falsy(arguments[1][k])) => Len(called) = 1

C38_Witness == /\ tool = "notion_retrieve_bot_user" /\ arguments = Undefined /\ hpc = "returned" /\ called = <<>> /\ caught = <<ErrorValue(TRUE, "No arguments provided")>>

(* ----------------------------- the HTTP server ---------------------------- *)

\* the if-chain of /mcp on the mcp-session-id header h: the stored transport when it is a
\* StreamableHTTPServerTransport, the reply for a session of the other protocol, a new
\* transport for a POST of an initialize request without a session id, the reply for the rest
McpRoute_AnyInitialize(map, ss, h, m, body) ==
    IF ~Falsy(h) /\ h[1] \in DOMAIN map
       THEN IF ss[map[h[1]]].kind = "StreamableHTTPServerTransport" THEN "existing" ELSE "other protocol"
       ELSE IF m = "POST" /\ body = "initialize" THEN "new" ELSE "no session"

McpRoute_AnyTransport(map, ss, h, m, body) ==
    IF ~Falsy(h) /\ h[1] \in DOMAIN map
       THEN "existing"
       ELSE IF Falsy(h) /\ m = "POST" /\ body = "initialize" THEN "new" ELSE "no session"

McpRoute(map, ss, h, m, body) ==
    IF ~Falsy(h) /\ h[1] \in DOMAIN map
       THEN IF ss[map[h[1]]].kind = "StreamableHTTPServerTransport" THEN "existing" ELSE "other protocol"
       ELSE IF Falsy(h) /\ m = "POST" /\ body = "initialize" THEN "new" ELSE "no session"

\* an onclose that leaves the map alone
OnClose_Keep(map, sid) == map

\* transport.onclose, and the close handler of the response of /sse: the key sid leaves the map
OnClose(map, sid) == IF sid # Undefined /\ sid[1] \in DOMAIN map THEN [k \in DOMAIN map \ {sid[1]} |-> map[k]] ELSE map

\* the server listens, no session exists
SessInit == /\ transports = [k \in {} |-> 0] /\ sessions = <<>> /\ req = [path |-> "none", sid |-> Undefined, method |-> "none", body |-> "none", stored |-> "none", closed |-> FALSE] /\ res = [status |-> 0, code |-> 0, by |-> 0, created |-> 0] /\ phase = "serving" /\ pending = <<>> /\ closing = Undefined /\ atSigint = [k \in {} |-> 0] /\ RetryIdle /\ WalkIdle /\ CancelIdle /\ ThrottleIdle /\ ReqIdle /\ ToolIdle /\ QueueIdle

\* a request of /mcp with header h, method m and a body of the given JSON-RPC method; outcome
\* is what transport.handleRequest does with it: it handles it (ok) or throws. A new transport that handles the initialize request takes a
\* fresh session id and onsessioninitialized stores it; a DELETE that a stored transport
\* handles closes the session, and onclose removes it. A key added while the for-in of the
\* SIGINT handler runs may or may not be visited by it (seen)
Mcp(h, m, body, outcome) ==
    LET route == McpRoute(transports, sessions, h, m, body)
        t == IF route = "new" THEN Len(sessions) + 1 ELSE IF route = "existing" THEN transports[h[1]] ELSE 0
        sid == IF route = "new" /\ outcome = "ok" THEN <<"s" \o ToString(t)>> ELSE Undefined
    IN  /\ phase \in {"serving", "closing"}
        /\ route = "new" => Len(sessions) < MaxSessions
        /\ sessions' = IF route = "new" THEN Append(sessions, [kind |-> "StreamableHTTPServerTransport", sessionId |-> sid, open |-> TRUE, closes |-> 0])
                       ELSE IF route = "existing" /\ m = "DELETE" /\ outcome = "ok" THEN [sessions EXCEPT ![t].open = FALSE]
                       ELSE sessions
        /\ transports' = IF sid # Undefined THEN [k \in DOMAIN transports \cup {sid[1]} |-> IF k = sid[1] THEN t ELSE transports[k]]
                         ELSE IF route = "existing" /\ m = "DELETE" /\ outcome = "ok" THEN OnClose(transports, sessions[t].sessionId)
                         ELSE transports
        /\ res' = IF t = 0 THEN [status |-> 400, code |-> -32000, by |-> 0, created |-> 0]
                  ELSE IF outcome = "threw" THEN [status |-> 500, code |-> -32603, by |-> t, created |-> Len(sessions') - Len(sessions)]
                  ELSE [status |-> 0, code |-> 0, by |-> t, created |-> Len(sessions') - Len(sessions)]
        /\ req' = [path |-> "/mcp", sid |-> h, method |-> m, body |-> body, stored |-> IF h # Undefined /\ h[1] \in DOMAIN transports THEN sessions[transports[h[1]]].kind ELSE "none", closed |-> \E i \in 1..Len(sessions) : sessions[i].sessionId = h /\ h # Undefined /\ ~sessions[i].open]
        /\ \E seen \in (IF phase = "closing" /\ sid # Undefined THEN BOOLEAN ELSE {FALSE}) : pending' = IF seen THEN Append(pending, sid[1]) ELSE pending
        /\ UNCHANGED <<phase, closing, atSigint>>
        /\ UNCHANGED restOfSess

\* GET /sse: a new SSEServerTransport is stored under its session id
Sse ==
    LET t == Len(sessions) + 1
        sid == "s" \o ToString(t)
    IN  /\ phase \in {"serving", "closing"}
        /\ Len(sessions) < MaxSessions
        /\ sessions' = Append(sessions, [kind |-> "SSEServerTransport", sessionId |-> <<sid>>, open |-> TRUE, closes |-> 0])
        /\ transports' = [k \in DOMAIN transports \cup {sid} |-> IF k = sid THEN t ELSE transports[k]]
        /\ \E seen \in (IF phase = "closing" THEN BOOLEAN ELSE {FALSE}) : pending' = IF seen THEN Append(pending, sid) ELSE pending
        /\ UNCHANGED <<req, res, phase, closing, atSigint>>
        /\ UNCHANGED restOfSess

\* POST /messages with sessionId h in the query
Messages(h) ==
    LET t == IF h # Undefined /\ h[1] \in DOMAIN transports /\ sessions[transports[h[1]]].kind = "SSEServerTransport" THEN transports[h[1]] ELSE 0
    IN  /\ phase \in {"serving", "closing"}
        /\ res' = IF t = 0 THEN [status |-> 400, code |-> -32000, by |-> 0, created |-> 0] ELSE [status |-> 0, code |-> 0, by |-> t, created |-> 0]
        /\ req' = [path |-> "/messages", sid |-> h, method |-> "POST", body |-> "tools/call", stored |-> IF h # Undefined /\ h[1] \in DOMAIN transports THEN sessions[transports[h[1]]].kind ELSE "none", closed |-> \E i \in 1..Len(sessions) : sessions[i].sessionId = h /\ h # Undefined /\ ~sessions[i].open]
        /\ UNCHANGED <<transports, sessions, phase, pending, closing, atSigint>>
        /\ UNCHANGED restOfSess

\* the response of the /sse request of transport t closes
ResponseCloses(t) ==
    /\ phase \in {"serving", "closing"}
    /\ t <= Len(sessions)
    /\ sessions[t].kind = "SSEServerTransport"
    /\ sessions[t].open
    /\ sessions' = [sessions EXCEPT ![t].open = FALSE]
    /\ transports' = OnClose(transports, sessions[t].sessionId)
    /\ UNCHANGED <<req, res, phase, pending, closing, atSigint>>
    /\ UNCHANGED restOfSess

\* SIGINT arrives: the for-in starts on the keys of the map, in the order they were added
Sigint ==
    /\ phase = "serving"
    /\ phase' = "closing"
    /\ pending' = LET stored == SelectSeq([t \in 1..Len(sessions) |-> t], LAMBDA t : sessions[t].sessionId # Undefined /\ sessions[t].sessionId[1] \in DOMAIN transports)
                  IN  [i \in 1..Len(stored) |-> sessions[stored[i]].sessionId[1]]
    /\ atSigint' = transports
    /\ UNCHANGED <<transports, sessions, req, res, closing>>
    /\ UNCHANGED restOfSess

\* the for-in takes its next key, one that is still in the map, and calls close() on the
\* transport stored under it
CloseStarts ==
    LET live == SelectSeq(pending, LAMBDA k : k \in DOMAIN transports)
    IN  /\ phase = "closing"
        /\ closing = Undefined
        /\ live # <<>>
        /\ closing' = <<Head(live)>>
        /\ pending' = Tail(live)
        /\ sessions' = [sessions EXCEPT ![transports[Head(live)]].closes = @ + 1]
        /\ UNCHANGED <<transports, req, res, phase, atSigint>>
        /\ UNCHANGED restOfSess

\* a loop that an error of close() leaves
CloseSettles_Abort(ok) ==
    LET t == CHOOSE i \in 1..Len(sessions) : sessions[i].sessionId = closing
    IN  /\ phase = "closing"
        /\ closing # Undefined
        /\ sessions' = IF ok THEN [sessions EXCEPT ![t].open = FALSE] ELSE sessions
        /\ transports' = IF ok THEN OnClose(transports, closing) ELSE transports
        /\ pending' = IF ok THEN pending ELSE <<>>
        /\ closing' = Undefined
        /\ UNCHANGED <<req, res, phase, atSigint>>
        /\ UNCHANGED restOfSess

\* the awaited close() settles: when it resolved the transport is closed and its key deleted,
\* when it rejected the catch block logs the error; the loop goes on
CloseSettles(ok) ==
    LET t == CHOOSE i \in 1..Len(sessions) : sessions[i].sessionId = closing
    IN  /\ phase = "closing"
        /\ closing # Undefined
        /\ sessions' = IF ok THEN [sessions EXCEPT ![t].open = FALSE] ELSE sessions
        /\ transports' = IF ok THEN [k \in DOMAIN transports \ {closing[1]} |-> transports[k]] ELSE transports
        /\ closing' = Undefined
        /\ UNCHANGED <<req, res, phase, pending, atSigint>>
        /\ UNCHANGED restOfSess

\* the for-in has no key left: process.exit(0)
Exit ==
    /\ phase = "closing"
    /\ closing = Undefined
    /\ SelectSeq(pending, LAMBDA k : k \in DOMAIN transports) = <<>>
    /\ phase' = "exited"
    /\ UNCHANGED <<transports, sessions, req, res, pending, closing, atSigint>>
    /\ UNCHANGED restOfSess

\* the session ids of the requests are the ids the server can issue and s0, which it never
\* issues
SessNext ==
    \/ (\E h \in {Undefined, <<"">>} \cup {<<"s" \o ToString(i)>> : i \in 0..MaxSessions}, m \in {"GET", "POST", "DELETE"}, body \in {"initialize", "tools/call"}, outcome \in {"ok", "threw"} : Mcp(h, m, body, outcome))
    \/ Sse
    \/ (\E h \in {Undefined, <<"">>} \cup {<<"s" \o ToString(i)>> : i \in 0..MaxSessions} : Messages(h))
    \/ (\E t \in 1..MaxSessions : ResponseCloses(t))
    \/ Sigint
    \/ CloseStarts
    \/ (\E ok \in BOOLEAN : CloseSettles(ok))
    \/ Exit

SessSpec == SessInit /\ [][SessNext]_vars

(* ====================== properties of the HTTP server ====================== *)

\* the class of transport an endpoint serves
ProtocolOf(path) == IF path = "/mcp" THEN "StreamableHTTPServerTransport" ELSE "SSEServerTransport"

\* the last request was refused with HTTP 400 and code -32000, and no transport saw it
Refused == res.status = 400 /\ res.code = -32000 /\ res.by = 0 /\ res.created = 0

\* C33: a request is handed only to a transport of the protocol of its endpoint, and a stored
\* transport only gets requests that carry its own session id; a session id of the other
\* protocol or of no session is refused with HTTP 400, code -32000, and no transport handles
\* the request.
C33_MatchingProtocolOnly ==
    req.path \in {"/mcp", "/messages"} =>
        /\ res.by # 0 => sessions[res.by].kind = ProtocolOf(req.path)
        /\ (res.by # 0 /\ res.created = 0) => (req.sid = sessions[res.by].sessionId /\ req.stored = ProtocolOf(req.path))
        /\ (req.path = "/messages" /\ req.stored # ProtocolOf(req.path)) => Refused
        /\ (req.path = "/mcp" /\ ~Falsy(req.sid) /\ req.stored # ProtocolOf(req.path)) => Refused

C33_Witness == /\ req.path = "/mcp" /\ req.sid = <<"s1">> /\ req.stored = "SSEServerTransport" /\ "s1" \in DOMAIN transports /\ sessions[1].open /\ Refused

\* C34 as stated: /mcp creates a transport only for a POST of an initialize request that has
\* no mcp-session-id header, and every other request without a known session id gets HTTP
\* 400 and creates nothing.
C34_CreatedOnlyWithoutHeader ==
    req.path = "/mcp" =>
        /\ res.created = 1 => (req.sid = Undefined /\ req.method = "POST" /\ req.body = "initialize")
        /\ (req.stored = "none" /\ ~(req.sid = Undefined /\ req.method = "POST" /\ req.body = "initialize")) => Refused

\* C34: /mcp creates a transport only for a POST of an initialize request whose
\* mcp-session-id header is absent or empty, and every other request without a known session
\* id, an initialize request with an unknown or expired id included, gets HTTP 400 and
\* creates nothing.
C34_CreatedOnlyWithoutSessionId ==
    req.path = "/mcp" =>
        /\ res.created \in {0, 1}
        /\ res.created = 1 <=> (Falsy(req.sid) /\ req.method = "POST" /\ req.body = "initialize")
        /\ (req.stored = "none" /\ ~(Falsy(req.sid) /\ req.method = "POST" /\ req.body = "initialize")) => Refused

C34_Witness == /\ req.path = "/mcp" /\ req.sid = <<"s1">> /\ req.closed /\ req.method = "POST" /\ req.body = "initialize" /\ Refused /\ Len(sessions) = 1

\* C35: the keys of the map are exactly the session ids of the open transports, every key
\* maps to the transport with that session id, and a request with the id of a session that
\* has closed is refused with HTTP 400.
C35_MapHoldsLiveSessions ==
    /\ DOMAIN transports = {sessions[t].sessionId[1] : t \in {i \in 1..Len(sessions) : sessions[i].open /\ sessions[i].sessionId # Undefined}}
    /\ \A k \in DOMAIN transports : sessions[transports[k]].sessionId = <<k>>
    /\ req.closed => Refused

C35_Witness == /\ Len(sessions) = 2 /\ sessions[1].kind = "StreamableHTTPServerTransport" /\ sessions[1].sessionId = <<"s1">> /\ ~sessions[1].open /\ sessions[2].kind = "SSEServerTransport" /\ ~sessions[2].open /\ DOMAIN transports = {} /\ req.path = "/messages" /\ req.sid = <<"s2">> /\ req.closed /\ Refused /\ phase = "serving"

\* C36: when the process exits after SIGINT, close() was called once on every transport the
\* map held at SIGINT, unless the transport had closed by itself before its turn, never twice
\* on any transport, an error of one close() did not keep the later ones from being closed,
\* and no closed transport is left in the map.
C36_ShutdownClosesAll ==
    /\ \A t \in 1..Len(sessions) : sessions[t].closes <= 1 /\ (sessions[t].closes = 1 => phase \in {"closing", "exited"})
    /\ phase = "exited" => \A k \in DOMAIN atSigint : sessions[atSigint[k]].closes = 1 \/ ~sessions[atSigint[k]].open
    /\ phase = "exited" => \A t \in 1..Len(sessions) : (~sessions[t].open /\ sessions[t].sessionId # Undefined) => sessions[t].sessionId[1] \notin DOMAIN transports

C36_Witness == /\ phase = "exited" /\ DOMAIN atSigint = {"s1", "s2"} /\ sessions[1].closes = 1 /\ sessions[1].open /\ sessions[2].closes = 1 /\ ~sessions[2].open /\ DOMAIN transports = {"s1"}

(* ------------- concurrent walks over one rate-limited client ------------- *)

\* the walks that share one NotionClientWithRateLimiting
Walks == 1..NumWalks

\* executeWithRetry after the outcome of an attempt: retry after a sleep, return the body,
\* or throw (the API error of the response, or the network error)
Decide(outcome, att, max) ==
    CASE outcome = "2xx" -> "returned"
      [] outcome = "429" -> IF RetriesLeft(att, max) THEN "retry" ELSE "api error"
      [] outcome = "4xx" -> "api error"
      [] outcome = "net" -> IF RetriesLeft(att, max) THEN "retry" ELSE "network error"

\* let attempt = 0: the counter of a call of executeWithRetry is a local of that call
FreshAttempt_Shared(c, cs) == IF \E d \in DOMAIN cs : d # c /\ cs[d].fn \in {"api error", "network error"} THEN 1 ELSE 0

FreshAttempt(c, cs) == 0

\* fn() of entry h runs up to its first await: executeWithRetry sets attempt = 0 and, with an
\* attempt left, awaits this.throttle(); otherwise it throws 'Max retries exceeded'
StartFn(st, h) ==
    LET att == FreshAttempt(h, st.calls)
    IN  [st EXCEPT !.running = h,
                   !.calls[h].attempt = att,
                   !.calls[h].outcomes = <<>>,
                   !.calls[h].waits = <<>>,
                   !.calls[h].fn = IF WhileCond(att, maxRetriesOfClient) THEN "none" ELSE "max retries exceeded",
                   !.calls[h].pc = IF WhileCond(att, maxRetriesOfClient) THEN "throttle" ELSE "fnDone"]

\* const { fn, resolve, reject } = this.queue.shift(); await fn()
ShiftAndRun(st) == StartFn([st EXCEPT !.queue = Tail(@), !.shifted = @ + 1], Head(st.queue))

\* processQueue(): nothing when a drain is running or the queue is empty; otherwise the drain
\* starts with the head of the queue
ProcessQueue_NoFlag(st) == IF st.queue = <<>> THEN st ELSE ShiftAndRun([st EXCEPT !.processing = TRUE])

ProcessQueue(st) == IF st.processing \/ st.queue = <<>> THEN st ELSE ShiftAndRun([st EXCEPT !.processing = TRUE])

\* request() -> enqueue(fn): this.queue.push({ fn, resolve, reject }); this.processQueue()
Enqueue(st, c) == ProcessQueue([st EXCEPT !.queue = Append(@, c), !.pushed = @ + 1, !.calls[c].ticket = st.pushed + 1, !.calls[c].pc = "queued"])

\* the client as the state holds it
ClientNow == [calls |-> calls, queue |-> queue, processing |-> processing, running |-> running, pushed |-> pushed, shifted |-> shifted]

\* the state takes the client st
Becomes(st) == /\ calls' = st.calls /\ queue' = st.queue /\ processing' = st.processing /\ running' = st.running /\ pushed' = st.pushed /\ shifted' = st.shifted

\* each walk is about to send its first request, with let allRows = [] as its own local; the
\* server holds 1..MaxWalkPages pages for it
QueueInit == /\ maxRetriesOfClient \in 1..MaxQueueRetries /\ calls \in [Walks -> {[pc |-> "idle", pages |-> n, fetched |-> 0, items |-> <<>>, outcome |-> "pending", attempt |-> 0, outcomes |-> <<>>, waits |-> <<>>, fn |-> "none", ticket |-> 0] : n \in 1..MaxWalkPages}] /\ queue = <<>> /\ processing = FALSE /\ running = 0 /\ pushed = 0 /\ shifted = 0 /\ RetryIdle /\ WalkIdle /\ CancelIdle /\ ThrottleIdle /\ ReqIdle /\ ToolIdle /\ SessIdle

\* walk c calls client.queryDatabase(...) for its first page
FirstRequest(c) == /\ calls[c].pc = "idle" /\ Becomes(Enqueue(ClientNow, c)) /\ UNCHANGED maxRetriesOfClient /\ UNCHANGED restOfQueue

\* this.throttle() returns and the fetch of the attempt is sent
Throttled(c) == /\ calls[c].pc = "throttle" /\ calls' = [calls EXCEPT ![c].pc = "await"] /\ UNCHANGED <<queue, processing, running, maxRetriesOfClient, pushed, shifted>> /\ UNCHANGED restOfQueue

\* the attempt of the running call ends: the rest of the loop body
AttemptEnds(c, outcome) ==
    LET decision == Decide(outcome, calls[c].attempt, maxRetriesOfClient)
    IN  /\ calls[c].pc = "await"
        /\ calls' = [calls EXCEPT ![c].outcomes = Append(@, outcome),
                                  ![c].waits = IF decision = "retry" THEN Append(@, calls[c].attempt + 1) ELSE @,
                                  ![c].fn = IF decision = "retry" THEN @ ELSE decision,
                                  ![c].pc = IF decision = "retry" THEN "sleep" ELSE "fnDone"]
        /\ UNCHANGED <<queue, processing, running, maxRetriesOfClient, pushed, shifted>>
        /\ UNCHANGED restOfQueue

\* the backoff timer fires: attempt++; continue
Wakes(c) ==
    LET att == calls[c].attempt + 1
    IN  /\ calls[c].pc = "sleep"
        /\ calls' = [calls EXCEPT ![c].attempt = att,
                                  ![c].fn = IF WhileCond(att, maxRetriesOfClient) THEN @ ELSE "max retries exceeded",
                                  ![c].pc = IF WhileCond(att, maxRetriesOfClient) THEN "throttle" ELSE "fnDone"]
        /\ UNCHANGED <<queue, processing, running, maxRetriesOfClient, pushed, shifted>>
        /\ UNCHANGED restOfQueue

\* the drain without its try block: an error of fn leaves processQueue, which ends with
\* this.processing still true and the promise of the entry unsettled
Drains_NoCatch(c) ==
    LET settled == [ClientNow EXCEPT !.calls[c].pc = "resume", !.calls[c].attempt = 0, !.calls[c].outcomes = <<>>, !.calls[c].waits = <<>>, !.calls[c].ticket = 0, !.running = 0]
    IN  /\ calls[c].pc = "fnDone"
        /\ running = c
        /\ IF calls[c].fn = "returned"
              THEN Becomes(IF settled.queue # <<>> THEN ShiftAndRun(settled) ELSE [settled EXCEPT !.processing = FALSE])
              ELSE Becomes([settled EXCEPT !.calls[c].pc = "unsettled"])
        /\ UNCHANGED maxRetriesOfClient
        /\ UNCHANGED restOfQueue

\* await fn() of the drain resumes: the call of executeWithRetry is over and its locals are
\* gone, resolve(result) or reject(error) settles the promise of the entry, then the loop
\* takes the next entry or ends with this.processing = false
Drains(c) ==
    LET settled == [ClientNow EXCEPT !.calls[c].pc = "resume", !.calls[c].attempt = 0, !.calls[c].outcomes = <<>>, !.calls[c].waits = <<>>, !.calls[c].ticket = 0, !.running = 0]
    IN  /\ calls[c].pc = "fnDone"
        /\ running = c
        /\ Becomes(IF settled.queue # <<>> THEN ShiftAndRun(settled) ELSE [settled EXCEPT !.processing = FALSE])
        /\ UNCHANGED maxRetriesOfClient
        /\ UNCHANGED restOfQueue

\* the await of walk c resumes. With a page: allRows = allRows.concat(response.results), then
\* the next request when the page has more, or return allRows. With an error: the walk throws
Resumes(c) ==
    LET got == [ClientNow EXCEPT !.calls[c].items = Append(@, <<c, calls[c].fetched + 1>>), !.calls[c].fetched = @ + 1]
    IN  /\ calls[c].pc = "resume"
        /\ IF calls[c].fn = "returned"
              THEN (IF got.calls[c].fetched < calls[c].pages
                       THEN Becomes(Enqueue(got, c))
                       ELSE Becomes([got EXCEPT !.calls[c].pc = "done", !.calls[c].outcome = "returned"]))
              ELSE Becomes([ClientNow EXCEPT !.calls[c].pc = "done", !.calls[c].outcome = "thrown", !.calls[c].items = <<>>])
        /\ UNCHANGED maxRetriesOfClient
        /\ UNCHANGED restOfQueue

QueueNext == \/ (\E c \in Walks : FirstRequest(c)) \/ (\E c \in Walks : Throttled(c)) \/ (\E c \in Walks, outcome \in {"2xx", "429", "4xx", "net"} : AttemptEnds(c, outcome)) \/ (\E c \in Walks : Wakes(c)) \/ (\E c \in Walks : Drains(c)) \/ (\E c \in Walks : Resumes(c))

QueueSpec == QueueInit /\ [][QueueNext]_vars

\* timers fire, every fetch is answered or fails, and the continuation of a settled promise
\* runs: a step that can be taken is taken
QueueFairSpec == QueueSpec /\ WF_vars(QueueNext)

(* ==================== properties of the concurrent walks ==================== *)

\* a call of executeWithRetry that runs alone and whose attempts end as outs: its attempt
\* counter, its backoff waits and what it has given its caller so far
RECURSIVE Alone(_, _, _, _)
Alone(max, outs, att, waits) ==
    IF ~(att < max) THEN [attempt |-> att, waits |-> waits, fn |-> "max retries exceeded"]
    ELSE IF outs = <<>> THEN [attempt |-> att, waits |-> waits, fn |-> "none"]
    ELSE IF Head(outs) = "2xx" THEN [attempt |-> att, waits |-> waits, fn |-> "returned"]
    ELSE IF Head(outs) \in {"429", "net"} /\ att < max - 1 THEN Alone(max, Tail(outs), att + 1, Append(waits, att + 1))
    ELSE [attempt |-> att, waits |-> waits, fn |-> IF Head(outs) = "net" THEN "network error" ELSE "api error"]

\* the pages 1..n of walk c, in order
PagesOf(c, n) == [k \in 1..n |-> <<c, k>>]

\* the call of executeWithRetry of walk c is running, and not in a backoff sleep
Started(c) == calls[c].pc \in {"throttle", "await", "fnDone"}

Executing(c) == calls[c].pc \in {"throttle", "await", "sleep", "fnDone"}

AllSettled == /\ \A c \in Walks : calls[c].pc = "done" /\ queue = <<>> /\ running = 0 /\ ~processing /\ shifted = pushed

\* C32: no entry is stranded (a drain is running whenever the queue holds an entry),
\* processing is false whenever the queue is empty and no function is running, and every
\* entry is eventually executed and its promise settled, also behind an entry that was
\* rejected: every walk ends with its result.
C32_EveryEntrySettled == [](queue # <<>> => (processing /\ running # 0)) /\ []((queue = <<>> /\ running = 0) => ~processing) /\ <>[]AllSettled

C32_Witness == /\ calls[1].pc = "resume" /\ calls[1].fn = "api error" /\ shifted = 2 /\ running = 2 /\ calls[2].ticket = 2 /\ calls[2].pc = "fnDone" /\ calls[2].fn = "returned"

(* ==================== properties of the pagination walks ==================== *)

\* the latest page asked for a follow-up: has_more with a usable cursor
MoreToFetch == lastPage.has_more /\ ValidCursor(lastPage.next_cursor)

\* C13: as long as every page carries a results list, the accumulated result set is the
\* concatenation of the pages' results in arrival order (nothing reordered, dropped or
\* deduplicated), and that is what a walk returns.
C13_AccumulatesInOrder == (listPages /\ wpc # "thrown") => /\ allResults = served /\ (wpc = "returned" => walkResult = WalkResult("returned", served))

C13_Witness == /\ walker = "getAllDatabaseRows" /\ wpc = "returned" /\ pagesFetched = 3 /\ lastSent = <<"c2">> /\ walkResult.items = <<"a", "b", "c", "c">>

\* C14: a follow-up request is sent only after a page with has_more true and a next_cursor
\* that is a non-empty string other than "null"; no follow-up carries start_cursor "null" or
\* no cursor at all (which restarts from the first page).
C14_FollowUpNeedsValidCursor == /\ (pagesFetched >= 1 /\ wpc \in {"send", "await"} => MoreToFetch) /\ (walkRequests >= 2 => ValidCursor(lastSent))

\* C15: after the first page with has_more false the walk returns without another request (the
\* requests sent equal the index of that page), and every follow-up request carries the
\* next_cursor of the page before it, the first request no cursor.
C15_StopsAtLastPage == /\ (pagesFetched >= 1 /\ ~lastPage.has_more => wpc = "returned" /\ walkRequests = pagesFetched /\ outstanding = 0 /\ walkResult = WalkResult("returned", allResults)) /\ (wpc = "await" /\ walkRequests >= 2 => lastSent = lastPage.next_cursor) /\ (walkRequests = 1 => lastSent = NoCursor)

C15_Witness == /\ walker = "paginateQuery" /\ wpc = "returned" /\ walkRequests = 2 /\ pagesFetched = 2 /\ lastSent = <<"c1">> /\ ~lastPage.has_more /\ walkResult = WalkResult("returned", <<"a", "b", "c">>)

\* C16: in the walkers with a ceiling, the pages fetched never exceed the ceiling; a walk whose
\* pages all ask for a follow-up goes on below the ceiling and returns, without an error, after
\* exactly as many requests as the ceiling.
C16_CeilingRespected == walker \in CeilingWalkers => /\ walkRequests <= maxPages /\ pagesFetched <= maxPages /\ (wpc = "returned" /\ MoreToFetch => walkRequests = maxPages /\ pagesFetched = maxPages /\ walkResult.kind = "returned") /\ (wpc # "thrown" /\ pagesFetched >= 1 /\ pagesFetched < maxPages /\ MoreToFetch => wpc \in {"send", "await"})

C16_Witness == /\ walker = "getAllDatabaseRows" /\ maxPages = 2 /\ wpc = "returned" /\ walkRequests = 2 /\ MoreToFetch /\ walkResult = WalkResult("returned", <<"a", "b", "c">>)

\* C17: the result of a walk is flagged truncated exactly when the walk stopped at the ceiling
\* while the last page still asked for a follow-up.
C17_TruncatedFlag == (walker \in CeilingWalkers /\ wpc = "returned") => (Truncated(walkResult) <=> (pagesFetched = maxPages /\ MoreToFetch))

\* C18: the page requests of a walk never exceed the page-count ceiling, whatever the
\* upstream answers.
C18_RequestsBoundedByCeiling == walkRequests <= maxPages

\* C19: a walk that fails after at least one page was fetched hands the items accumulated so
\* far to its caller together with the failure.
C19_FailureKeepsPartial == (wpc = "thrown" /\ pagesFetched >= 1) => walkResult.items = served

\* C20: the requests of a walk are strictly sequential: at most one is outstanding, the walker
\* is waiting exactly while one is, and every earlier request has had its outcome (a page or
\* the failure that ended the walk).
C20_OneOutstanding == /\ outstanding <= 1 /\ (outstanding = 1 <=> wpc = "await") /\ walkRequests = pagesFetched + outstanding + (IF wpc = "thrown" THEN 1 ELSE 0)

C20_Witness == /\ walker = "paginateQuery" /\ wpc = "await" /\ walkRequests = 3 /\ pagesFetched = 2 /\ outstanding = 1 /\ lastSent = <<"c2">>

====
